---- MODULE Spec2Model ----
(***************************************************************************)
(* A model of the tourreviewai worker: the retry executor and its circuit  *)
(* breaker (RetryManager), the job-claiming worker pool (WorkerManager),   *)
(* and the phased import pipeline (ScalableJobProcessor and JobProcessor). *)
(* Each component has its own variables and its own specification; the     *)
(* variables of the other components stay at rest under it.                *)
(***************************************************************************)
EXTENDS Integers, Sequences, FiniteSets, TLC

(***************************************************************************)
(* Bounds of the model.                                                    *)
(***************************************************************************)
\* the largest maxAttempts value handed to executeWithRetry
MaxAttemptsBound == 3
\* the number of executeWithCircuitBreaker calls made
MaxCalls == 3
\* the last instant of the clock Date.now() reads
MaxTime == 3
\* the largest failureThreshold and the largest recoveryTimeMs passed
MaxThreshold == 2
MaxRecovery == 2
\* the largest config.maxConcurrentJobs
MaxConcurrency == 2
\* the jobs of the queue, the executions started, the polling cycles in flight
MaxJobs == 2
MaxExecutions == MaxJobs
MaxPolls == 2
\* the largest reviews_count a result reports
MaxTotal == 12
\* the most chunks a processPhase2 call is given to process
MaxChunks == 3
\* the most reviews a result carries short of a full sample
MaxReviews == 2
\* the latest date a review or the watermark carries
MaxStamp == 2
\* the largest review_id, and the most import passes over the table
MaxIds == 2
MaxPasses == 2
\* triggerEnhancedSync requests of the user
MaxRequests == 3
\* the metrics recorded, the flushMetrics calls in flight
MaxMetrics == 4
MaxFlushes == 2

(***************************************************************************)
(* The state.                                                              *)
(***************************************************************************)
\* RetryManager.executeWithRetry: one run
VARIABLES
  rProfile,      \* which entry point built the options
  rMaxAttempts,  \* options.maxAttempts
  rRetrySet,     \* generic options: the errors retryCondition accepts
  rOpAlways,     \* the operation: an error it always raises, or AnyOutcome
  rPc,           \* position inside executeWithRetry
  rAttempt,      \* the loop variable attempt
  rLastError,    \* the local lastError
  rOpError,      \* what the operation raised on its latest invocation
  rInvocations,  \* number of calls of operation()
  rDelays,       \* number of calls of this.delay()
  rRaised,       \* the error executeWithRetry raised
  delayMs,            \* options.delayMs
  backoffMultiplier,  \* options.backoffMultiplier, a fraction n/d
  maxDelayMs,         \* options.maxDelayMs
  currentDelay        \* const currentDelay of the latest delay, a fraction n/d

retryVars == <<rProfile, rMaxAttempts, rRetrySet, rOpAlways, rPc, rAttempt,
               rLastError, rOpError, rInvocations, rDelays, rRaised,
               delayMs, backoffMultiplier, maxDelayMs, currentDelay>>

\* RetryManager.executeWithCircuitBreaker: the breaker map and the calls
VARIABLES
  cbFailureThreshold,  \* options.failureThreshold
  cbRecoveryTimeMs,    \* options.recoveryTimeMs
  cbClock,             \* what Date.now() returns
  circuitBreakers,     \* the Map: operation name -> {failures, lastFailure, state}
  cbCalls,             \* each call: its operationName, position and const now
  cbConsecutive,       \* per name, failed calls in a row (no success between)
  cbFailedAt           \* per name, while its breaker is open: the instant the
                       \* latest failed call failed (0 while it is not open);
                       \* kept by SpecCBTimed only

cbVars == <<cbFailureThreshold, cbRecoveryTimeMs, cbClock, circuitBreakers,
            cbCalls, cbConsecutive, cbFailedAt>>

\* WorkerManager: its fields, its timers, the queue and the workers row
VARIABLES
  isRunning,           \* this.isRunning
  jobPollingInterval,  \* the polling timer is set
  heartbeatInterval,   \* the heartbeat timer is set
  maxConcurrentJobs,   \* this.config.maxConcurrentJobs
  currentJobs,         \* the Map: job id -> the promise of its execution
  wmExecutions,        \* each execution started by processJob and not settled
  wmStarted,           \* how many executions processJob has started
  wmPolls,             \* each pollForJobs call in flight: availableSlots and i
  jobQueue,            \* job_queue.status per job
  workerRow,           \* workers.status of this worker
  stopPc,              \* position inside stop()
  stopAwaits,          \* the promises of jobPromises that have not settled
  wmAfterStop,         \* claim calls and dispatches made since stop() was called
  wmOffline            \* what held when unregisterWorker sent its update

wmVars == <<isRunning, jobPollingInterval, heartbeatInterval, maxConcurrentJobs,
            currentJobs, wmExecutions, wmStarted, wmPolls, jobQueue, workerRow,
            stopPc, stopAwaits, wmAfterStop, wmOffline>>

\* one phase invocation of the import pipeline and its pollForResults call
VARIABLES
  pollCaller,          \* the class whose pollForResults runs
  phasePc,             \* position inside the phase (the caller of pollForResults)
  pPc,                 \* position inside pollForResults
  pAttempt,            \* let attempt
  pFetches,            \* getTaskResult calls made by this pollForResults call
  pFailedSeen,         \* a fetch has reported a failed task
  pNonTerminalOnly,    \* every fetch so far was answered, with no terminal status
  pResult,             \* what pollForResults returned
  pError,              \* what pollForResults raised
  runStatus,           \* review_sync_jobs.status of the run
  immediates,          \* setImmediate callbacks queued by schedulePhase2
  phase2Started        \* how many times processPhase2 was entered for the run

ipVars == <<pollCaller, phasePc, pPc, pAttempt, pFetches, pFailedSeen, pNonTerminalOnly,
            pResult, pError, runStatus, immediates, phase2Started>>

ipVarsButPc == <<pollCaller, pPc, pAttempt, pFetches, pFailedSeen, pNonTerminalOnly,
                 pResult, pError, runStatus, immediates, phase2Started>>

\* the counters and the progress of the run's review_sync_jobs row
VARIABLES
  runImported,         \* imported_count
  runSkipped,          \* skipped_count
  runErrors,           \* error_count
  runTotal,            \* total_available
  runProgress          \* progress_percentage, in units of 1/ProgressUnit percent

runVars == <<runImported, runSkipped, runErrors, runTotal, runProgress>>

\* processPhase2: its argument, its locals, and what its chunks did
VARIABLES
  totalReviews,        \* the argument totalReviews
  chunk,               \* let chunk
  totalImported,       \* let totalImported
  p2Submitted,         \* the tasks submitted so far: offset and depth of each
  p2ChunksDone,        \* chunks polled to completion and imported
  p2ImportSum,         \* the sum of the counts importReviews returned
  p2Sample             \* imported_count as Phase 1 left it: its sample

p2Vars == <<totalReviews, chunk, totalImported, p2Submitted, p2ChunksDone, p2ImportSum,
            p2Sample>>

\* an import of retrieved reviews (processPhase3, processTripAdvisorImport)
VARIABLES
  lastReviewDate,      \* the watermark read when the run was created (0: none)
  allReviews,          \* result.items: the reviews retrieved
  reviewsToImport,     \* newReviews / reviewsToImport: what the filter kept
  upserted,            \* the reviews of the upserts that succeeded
  full_history,        \* payload.full_history
  batchSize,           \* this.config.batchSize
  created,             \* what the remote API answered the latest task creation
  taPoll,              \* which task processTripAdvisorImport polls for
  batchAt,             \* let i of the batch loop
  importedCount,       \* let importedCount / let imported
  skipped,             \* let skipped
  errors,              \* let errors
  queueJob,            \* job_queue row of the job: status, error_message set,
                       \* job_type, payload
  runErrorSet          \* the run row carries an error message

impVars == <<lastReviewDate, allReviews, reviewsToImport, upserted, full_history,
             batchSize, created, taPoll, batchAt, importedCount, skipped, errors, queueJob, runErrorSet>>

\* the reviews table under repeated import passes
VARIABLES
  upProcessor,         \* the class whose importReviews runs
  stored,              \* the rows of the table: source and external_id of each
  generated,           \* external ids made up so far for reviews without review_id
  passes               \* per pass: the review_ids given, what it counted

upVars == <<upProcessor, stored, generated, passes>>

\* the executions of one queue job by processTripAdvisorImport and their runs
VARIABLES
  job_queue,           \* the job's row: pending, claimed (being executed), finished
  imports,             \* per execution of the job: its position
  review_sync_jobs     \* per execution: the run it inserted (queue_job_id, status,
                       \* progress written or not)

rsVars == <<job_queue, imports, review_sync_jobs>>

\* the update of the workers row a sendHeartbeat call has sent and that has
\* not reached the table
VARIABLES
  hbInFlight           \* the status it carries, "none" when no update is in flight

hbVars == <<hbInFlight>>

\* EnhancedJobAPI.triggerEnhancedSync requests of one user, the rows they
\* insert and the worker's processing of the jobs they queue
VARIABLES
  apiRequests,         \* per request: its position
  apiSync,             \* per request: status of the review_sync_jobs row inserted
                       \* by createEnhancedSyncJob ("none" when not inserted)
  apiJobs,             \* per request: status of the job_queue row it inserted
  apiRuns              \* per request: status of the run the worker inserted when
                       \* it processed that job

apiVars == <<apiRequests, apiSync, apiJobs, apiRuns>>

\* MetricsCollector: the buffer, the flushMetrics calls in flight and the
\* system_metrics table
VARIABLES
  metricsBuffer,       \* this.metricsBuffer, the metrics numbered as recorded
  mcRecorded,          \* how many metrics recordMetrics has been given
  mcFlushes,           \* per flushMetrics call: its position and metricsToFlush
  system_metrics       \* per metric: how many rows of the table hold it

mcVars == <<metricsBuffer, mcRecorded, mcFlushes, system_metrics>>

vars == <<retryVars, cbVars, wmVars, ipVars, runVars, p2Vars, impVars, upVars, rsVars,
          hbVars, apiVars, mcVars>>

\* what the steps of one component leave alone: the other components
otherThanRetry == <<cbVars, wmVars, ipVars, runVars, p2Vars, impVars, upVars, rsVars, hbVars, apiVars, mcVars>>
otherThanCB == <<retryVars, wmVars, ipVars, runVars, p2Vars, impVars, upVars, rsVars, hbVars, apiVars, mcVars>>
otherThanWM == <<retryVars, cbVars, ipVars, runVars, p2Vars, impVars, upVars, rsVars, hbVars, apiVars, mcVars>>
otherThanIP == <<retryVars, cbVars, wmVars, p2Vars, impVars, upVars, rsVars, hbVars, apiVars, mcVars>>
otherThanP2 == <<retryVars, cbVars, wmVars, impVars, upVars, rsVars, hbVars, apiVars, mcVars>>
otherThanImp == <<retryVars, cbVars, wmVars, p2Vars, upVars, rsVars, hbVars, apiVars, mcVars>>
otherThanRs == <<retryVars, cbVars, wmVars, ipVars, runVars, p2Vars, impVars, upVars, hbVars, apiVars, mcVars>>
otherThanHb == <<retryVars, cbVars, ipVars, runVars, p2Vars, impVars, upVars, rsVars, apiVars, mcVars>>
otherThanApi ==
  <<retryVars, cbVars, wmVars, ipVars, runVars, p2Vars, impVars, upVars, rsVars, hbVars,
    mcVars>>
otherThanMc ==
  <<retryVars, cbVars, wmVars, ipVars, runVars, p2Vars, impVars, upVars, rsVars, hbVars,
    apiVars>>
otherThanUp == <<retryVars, cbVars, wmVars, ipVars, runVars, p2Vars, impVars, rsVars, hbVars, apiVars, mcVars>>

(***************************************************************************)
(* RetryManager.executeWithRetry and its three profiles.                   *)
(***************************************************************************)


\* the value of a variable that was never assigned
Undefined == [status |-> -1, msg |-> "undefined"]

\* an operation that is free to resolve or to raise any error on each call
AnyOutcome == [status |-> -2, msg |-> "any"]

\* error.response.status of the errors an HTTP client raises for a response
HttpStatuses == {400, 401, 403, 404, 429, 500, 503}

\* what error.message holds: one of the words the predicates look for, or none
Messages == {"plain", "connection", "timeout", "network", "econnreset", "enotfound"}

\* An error with a response carries the client's message "Request failed with
\* status code N"; an error without a response (status 0) carries any message.
HttpErrors == {[status |-> s, msg |-> "plain"] : s \in HttpStatuses}
NetErrors == {[status |-> 0, msg |-> m] : m \in Messages}
Errors == HttpErrors \cup NetErrors

HasResponse(e) == e.status # 0

\* retryCondition of retryDatabaseOperation: the message only
RetryConditionDbMutant(e) ==
  \/ e.msg \in {"connection", "timeout", "network", "econnreset", "enotfound"}
  \/ HasResponse(e) /\ (e.status >= 500 \/ e.status = 429)

RetryConditionDb(e) ==
  e.msg \in {"connection", "timeout", "network", "econnreset", "enotfound"}

\* retryCondition of retryApiCall
RetryConditionApi(e) ==
  IF HasResponse(e)
  THEN e.status >= 500 \/ e.status = 429
  ELSE e.msg \in {"network", "timeout", "econnreset", "enotfound"}

\* retryCondition of retryDataForSEOCall
RetryConditionDataForSEO(e) ==
  IF HasResponse(e)
  THEN IF e.status \in {401, 403, 400}
       THEN FALSE
       ELSE e.status >= 500 \/ e.status = 429
  ELSE TRUE

Profiles == {"retryDatabaseOperation", "retryApiCall", "retryDataForSEOCall"}

\* JobProcessor.createDataForSEOTask calls executeWithRetry itself, with
\* { maxAttempts: 3, delayMs: 1000, backoffMultiplier: 2 } and no
\* retryCondition: rProfile "createDataForSEOTask".  The operation is the
\* submission; rOpAlways is what the remote API answers it with.

\* retryCondition(error) as the options in force define it
retryCondition(e) ==
  CASE rProfile = "retryDatabaseOperation" -> RetryConditionDb(e)
    [] rProfile = "retryApiCall" -> RetryConditionApi(e)
    [] rProfile = "retryDataForSEOCall" -> RetryConditionDataForSEO(e)
    [] OTHER -> e \in rRetrySet

\* the retryCondition values a direct caller of executeWithRetry passes:
\* the default () => true, one that never retries, one for server errors
GenericRetrySets == {Errors, {}, {e \in Errors : e.status >= 500}}

\* a number of the program that need not be whole: n/d
Number(i) == [n |-> i, d |-> 1]
Fraction(i, j) == [n |-> i, d |-> j]

\* the product of two numbers
Times(a, b) == [n |-> a.n * b.n, d |-> a.d * b.d]

\* Math.pow(b, e) for a whole e >= 0
RECURSIVE Pow(_, _)
Pow(b, e) == IF e = 0 THEN Number(1) ELSE Times(b, Pow(b, e - 1))

\* Math.min(a, b)
MathMin(a, b) == IF a.n * b.d <= b.n * a.d THEN a ELSE b

\* delayMs, backoffMultiplier and maxDelayMs as each entry point sets them;
\* a direct caller passes its own or leaves the defaults 2 and 30000
BackoffOptions(profile) ==
  CASE profile = "retryDatabaseOperation" ->
         {[delayMs |-> 1000, backoffMultiplier |-> Number(2), maxDelayMs |-> 10000]}
    [] profile = "retryApiCall" ->
         {[delayMs |-> 2000, backoffMultiplier |-> Number(2), maxDelayMs |-> 30000]}
    [] profile = "retryDataForSEOCall" ->
         {[delayMs |-> 5000, backoffMultiplier |-> Fraction(3, 2), maxDelayMs |-> 60000]}
    [] profile = "createDataForSEOTask" ->
         {[delayMs |-> 1000, backoffMultiplier |-> Number(2), maxDelayMs |-> 30000]}
    [] OTHER ->
         {[delayMs |-> 1000, backoffMultiplier |-> Number(2), maxDelayMs |-> 30000],
          [delayMs |-> 1000, backoffMultiplier |-> Number(2), maxDelayMs |-> 1500],
          [delayMs |-> 5, backoffMultiplier |-> Fraction(3, 2), maxDelayMs |-> 60],
          [delayMs |-> 5, backoffMultiplier |-> Number(1), maxDelayMs |-> 3]}

\* the delay without its cap
BackoffMutant(attempt) ==
  Times(Number(delayMs), Pow(backoffMultiplier, attempt - 1))

\* Math.min(delayMs * Math.pow(backoffMultiplier, attempt - 1), maxDelayMs)
Backoff(attempt) ==
  MathMin(Times(Number(delayMs), Pow(backoffMultiplier, attempt - 1)), Number(maxDelayMs))

InitRetry ==
  /\ rProfile \in Profiles \cup {"executeWithRetry", "createDataForSEOTask"}
  /\ rMaxAttempts \in (IF rProfile = "createDataForSEOTask" THEN {3} ELSE 0..MaxAttemptsBound)
  /\ rRetrySet \in (IF rProfile = "executeWithRetry" THEN GenericRetrySets ELSE {Errors})
  /\ rOpAlways \in Errors \cup {AnyOutcome}
  /\ rPc = "loop"
  /\ rAttempt = 1
  /\ rLastError = Undefined
  /\ rOpError = Undefined
  /\ rInvocations = 0
  /\ rDelays = 0
  /\ rRaised = Undefined
  /\ \E o \in BackoffOptions(rProfile) :
       /\ delayMs = o.delayMs
       /\ backoffMultiplier = o.backoffMultiplier
       /\ maxDelayMs = o.maxDelayMs
  /\ currentDelay = Number(0)

RestRetry ==
  /\ rProfile = "executeWithRetry"
  /\ rMaxAttempts = 0
  /\ rRetrySet = Errors
  /\ rOpAlways = AnyOutcome
  /\ rPc = "rest"
  /\ rAttempt = 1
  /\ rLastError = Undefined
  /\ rOpError = Undefined
  /\ rInvocations = 0
  /\ rDelays = 0
  /\ rRaised = Undefined
  /\ delayMs = 1000
  /\ backoffMultiplier = Number(2)
  /\ maxDelayMs = 30000
  /\ currentDelay = Number(0)

\* for (let attempt = 1; attempt <= maxAttempts; attempt++)
LoopTest == rAttempt <= rMaxAttempts

\* the last-attempt test left out: the catch block goes on to the delay
LastAttemptMutant == FALSE

\* if (attempt === maxAttempts) break
LastAttempt == rAttempt = rMaxAttempts

\* the loop body up to the await: operation() is called
RetryInvoke ==
  /\ UNCHANGED otherThanRetry
  /\ UNCHANGED <<delayMs, backoffMultiplier, maxDelayMs, currentDelay>>
  /\ rPc = "loop"
  /\ LoopTest
  /\ rInvocations' = rInvocations + 1
  /\ rPc' = "awaitOperation"
  /\ UNCHANGED <<rProfile, rMaxAttempts, rRetrySet, rOpAlways, rAttempt,
                 rLastError, rOpError, rDelays, rRaised>>

\* the loop ends without a return: throw lastError
RetryLoopExit ==
  /\ UNCHANGED otherThanRetry
  /\ UNCHANGED <<delayMs, backoffMultiplier, maxDelayMs, currentDelay>>
  /\ rPc = "loop"
  /\ ~LoopTest
  /\ rRaised' = rLastError
  /\ rPc' = "thrown"
  /\ UNCHANGED <<rProfile, rMaxAttempts, rRetrySet, rOpAlways, rAttempt,
                 rLastError, rOpError, rInvocations, rDelays>>

\* the awaited operation resolves: return result
RetryOperationSucceeds ==
  /\ UNCHANGED otherThanRetry
  /\ UNCHANGED <<delayMs, backoffMultiplier, maxDelayMs, currentDelay>>
  /\ rPc = "awaitOperation"
  /\ rOpAlways = AnyOutcome
  /\ rPc' = "returned"
  /\ UNCHANGED <<rProfile, rMaxAttempts, rRetrySet, rOpAlways, rAttempt,
                 rLastError, rOpError, rInvocations, rDelays, rRaised>>

\* the awaited operation rejects with e: the catch block, up to the delay's
\* await or to the throw after the loop
RetryOperationFails ==
  /\ UNCHANGED otherThanRetry
  /\ UNCHANGED <<delayMs, backoffMultiplier, maxDelayMs>>
  /\ rPc = "awaitOperation"
  /\ \E e \in (IF rOpAlways = AnyOutcome THEN Errors ELSE {rOpAlways}) :
       /\ rOpError' = e
       /\ rLastError' = e
       /\ IF LastAttempt \/ ~retryCondition(e)
          THEN /\ rRaised' = rLastError'
               /\ rPc' = "thrown"
               /\ UNCHANGED <<rDelays, currentDelay>>
          ELSE /\ rDelays' = rDelays + 1
               /\ currentDelay' = Backoff(rAttempt)
               /\ rPc' = "delay"
               /\ UNCHANGED rRaised
  /\ UNCHANGED <<rProfile, rMaxAttempts, rRetrySet, rOpAlways, rAttempt, rInvocations>>

\* the delay's timer fires: attempt++ and back to the loop test
RetryDelayElapsed ==
  /\ UNCHANGED otherThanRetry
  /\ UNCHANGED <<delayMs, backoffMultiplier, maxDelayMs, currentDelay>>
  /\ rPc = "delay"
  /\ rAttempt' = rAttempt + 1
  /\ rPc' = "loop"
  /\ UNCHANGED <<rProfile, rMaxAttempts, rRetrySet, rOpAlways, rLastError,
                 rOpError, rInvocations, rDelays, rRaised>>

NextRetry ==
  \/ RetryInvoke
  \/ RetryLoopExit
  \/ RetryOperationSucceeds
  \/ RetryOperationFails
  \/ RetryDelayElapsed

(***************************************************************************)
(* RetryManager.executeWithCircuitBreaker.  A call runs in two steps: up   *)
(* to the await of the operation, and from the operation's outcome on.     *)
(* Calls of the same RetryManager overlap freely on the event loop.        *)
(***************************************************************************)

OperationNames == {"submit", "fetch"}

CallIds == 1..MaxCalls

NoCall == [name |-> "none", pc |-> "idle", now |-> 0, probe |-> FALSE]

\* a call whose operation has ended: its locals are gone
Finished == [name |-> "none", pc |-> "done", now |-> 0, probe |-> FALSE]

\* a call for n that ended with the circuit-open error
Rejected(n) == [name |-> n, pc |-> "rejected", now |-> 0, probe |-> FALSE]

\* breaker = { failures: 0, lastFailure: 0, state: 'closed' }
NewBreaker == [failures |-> 0, lastFailure |-> 0, state |-> "closed"]

\* this.circuitBreakers.get(operationName), created when missing
Breaker(n) == IF n \in DOMAIN circuitBreakers THEN circuitBreakers[n] ELSE NewBreaker

\* this.circuitBreakers with the entry of n set to b
SetBreaker(n, b) ==
  [m \in DOMAIN circuitBreakers \cup {n} |-> IF m = n THEN b ELSE circuitBreakers[m]]

InitCB ==
  /\ cbFailureThreshold \in 1..MaxThreshold
  /\ cbRecoveryTimeMs \in 1..MaxRecovery
  /\ cbClock = 0
  /\ circuitBreakers = [n \in {} |-> NewBreaker]
  /\ cbCalls = [c \in CallIds |-> NoCall]
  /\ cbConsecutive = [n \in OperationNames |-> 0]
  /\ cbFailedAt = [n \in OperationNames |-> 0]

RestCB ==
  /\ cbFailureThreshold = 1
  /\ cbRecoveryTimeMs = 1
  /\ cbClock = 0
  /\ circuitBreakers = [n \in {} |-> NewBreaker]
  /\ cbCalls = [c \in CallIds |-> NoCall]
  /\ cbConsecutive = [n \in OperationNames |-> 0]
  /\ cbFailedAt = [n \in OperationNames |-> 0]

\* the recovery test with >= in place of >
RecoveryElapsedMutant(b, now) == now - b.lastFailure >= cbRecoveryTimeMs

\* now - breaker.lastFailure > recoveryTimeMs
RecoveryElapsed(b, now) == now - b.lastFailure > cbRecoveryTimeMs

\* the threshold test with > in place of >=
ThresholdReachedMutant(failures) == failures > cbFailureThreshold

\* breaker.failures >= failureThreshold
ThresholdReached(failures) == failures >= cbFailureThreshold

\* time passes
CBTick ==
  /\ UNCHANGED otherThanCB
  /\ cbClock < MaxTime
  /\ cbClock' = cbClock + 1
  /\ UNCHANGED <<cbFailureThreshold, cbRecoveryTimeMs, circuitBreakers, cbCalls,
                 cbConsecutive, cbFailedAt>>

\* a call begins while its breaker is open and the recovery time has not
\* elapsed: throw the circuit-open error
CBCallRejected(c, n) ==
  /\ UNCHANGED otherThanCB
  /\ cbCalls[c].pc = "idle"
  /\ \A d \in CallIds : d < c => cbCalls[d].pc # "idle"
  /\ Breaker(n).state = "open"
  /\ ~RecoveryElapsed(Breaker(n), cbClock)
  /\ circuitBreakers' = SetBreaker(n, Breaker(n))
  /\ cbCalls' = [cbCalls EXCEPT ![c] = Rejected(n)]
  /\ UNCHANGED <<cbFailureThreshold, cbRecoveryTimeMs, cbClock, cbConsecutive, cbFailedAt>>

\* a call begins and reaches the try block: an open breaker whose recovery
\* time has elapsed turns half-open, and the operation is invoked
CBCallLetThrough(c, n) ==
  /\ UNCHANGED otherThanCB
  /\ cbCalls[c].pc = "idle"
  /\ \A d \in CallIds : d < c => cbCalls[d].pc # "idle"
  /\ Breaker(n).state = "open" => RecoveryElapsed(Breaker(n), cbClock)
  /\ circuitBreakers' =
       SetBreaker(n, IF Breaker(n).state = "open"
                     THEN [Breaker(n) EXCEPT !.state = "half-open"]
                     ELSE Breaker(n))
  /\ cbCalls' = [cbCalls EXCEPT ![c] =
                   [name |-> n, pc |-> "awaitOperation", now |-> cbClock,
                    probe |-> Breaker(n).state # "closed"]]
  /\ cbFailedAt' = [cbFailedAt EXCEPT ![n] = 0]
  /\ UNCHANGED <<cbFailureThreshold, cbRecoveryTimeMs, cbClock, cbConsecutive>>

\* a success that resets the counter whatever the state
CBCallSucceedsMutant(c) ==
  /\ UNCHANGED otherThanCB
  /\ cbCalls[c].pc = "awaitOperation"
  /\ LET n == cbCalls[c].name
     IN /\ circuitBreakers' =
             [circuitBreakers EXCEPT ![n] =
                IF @.state = "half-open"
                THEN [@ EXCEPT !.state = "closed", !.failures = 0]
                ELSE [@ EXCEPT !.failures = 0]]
        /\ cbConsecutive' = [cbConsecutive EXCEPT ![n] = 0]
  /\ cbCalls' = [cbCalls EXCEPT ![c] = Finished]
  /\ UNCHANGED <<cbFailureThreshold, cbRecoveryTimeMs, cbClock, cbFailedAt>>

\* the operation of call c resolves: a half-open breaker closes
CBCallSucceeds(c) ==
  /\ UNCHANGED otherThanCB
  /\ cbCalls[c].pc = "awaitOperation"
  /\ LET n == cbCalls[c].name
     IN /\ circuitBreakers' =
             [circuitBreakers EXCEPT ![n] =
                IF @.state = "half-open"
                THEN [@ EXCEPT !.state = "closed", !.failures = 0]
                ELSE @]
        /\ cbConsecutive' = [cbConsecutive EXCEPT ![n] = 0]
  /\ cbCalls' = [cbCalls EXCEPT ![c] = Finished]
  /\ UNCHANGED <<cbFailureThreshold, cbRecoveryTimeMs, cbClock, cbFailedAt>>

\* the operation of call c rejects: count the failure, stamp it with the
\* call's own now, open the breaker at the threshold, rethrow
CBFailure(c) ==
  /\ UNCHANGED otherThanCB
  /\ cbCalls[c].pc = "awaitOperation"
  /\ LET n == cbCalls[c].name
         failures == circuitBreakers[n].failures + 1
     IN /\ circuitBreakers' =
             [circuitBreakers EXCEPT ![n] =
                [failures |-> failures,
                 lastFailure |-> cbCalls[c].now,
                 state |-> IF ThresholdReached(failures) THEN "open" ELSE @.state]]
        /\ cbConsecutive' = [cbConsecutive EXCEPT ![n] = @ + 1]
  /\ cbCalls' = [cbCalls EXCEPT ![c] = Finished]
  /\ UNCHANGED <<cbFailureThreshold, cbRecoveryTimeMs, cbClock>>

CBCallFails(c) ==
  /\ CBFailure(c)
  /\ UNCHANGED cbFailedAt

\* the same step, the instant of the failure noted when it leaves the
\* breaker open
CBCallFailsTimed(c) ==
  /\ CBFailure(c)
  /\ cbFailedAt' = [cbFailedAt EXCEPT ![cbCalls[c].name] =
                      IF circuitBreakers'[cbCalls[c].name].state = "open"
                      THEN cbClock ELSE 0]

NextCB ==
  \/ CBTick
  \/ \E c \in CallIds, n \in OperationNames : CBCallRejected(c, n)
  \/ \E c \in CallIds, n \in OperationNames : CBCallLetThrough(c, n)
  \/ \E c \in CallIds : CBCallSucceeds(c)
  \/ \E c \in CallIds : CBCallFails(c)

NextCBTimed ==
  \/ CBTick
  \/ \E c \in CallIds, n \in OperationNames : CBCallRejected(c, n)
  \/ \E c \in CallIds, n \in OperationNames : CBCallLetThrough(c, n)
  \/ \E c \in CallIds : CBCallSucceeds(c)
  \/ \E c \in CallIds : CBCallFailsTimed(c)


(***************************************************************************)
(* WorkerManager: the polling timer and pollForJobs, processJob and the    *)
(* executions it starts, the heartbeat, and stop().  Every await is a      *)
(* point where the other callbacks of the event loop run.                  *)
(***************************************************************************)
JobIds == 1..MaxJobs
ExecIds == 1..MaxExecutions
PollIds == 1..MaxPolls

NoPoll == [active |-> FALSE, availableSlots |-> 0, i |-> 0]
\* no execution, or one that has settled: its promise is resolved
NoExecution == [job |-> 0, pc |-> "none"]
NotOffline == [written |-> FALSE, executing |-> 0, timedOut |-> FALSE]

\* the state once start() has returned
InitWM ==
  /\ isRunning = TRUE
  /\ jobPollingInterval = TRUE
  /\ heartbeatInterval = TRUE
  /\ maxConcurrentJobs \in 1..MaxConcurrency
  /\ currentJobs = [j \in {} |-> 0]
  /\ wmExecutions = [e \in ExecIds |-> NoExecution]
  /\ wmStarted = 0
  /\ wmPolls = [p \in PollIds |-> NoPoll]
  /\ jobQueue = [j \in JobIds |-> "pending"]
  /\ workerRow = "idle"
  /\ stopPc = "idle"
  /\ stopAwaits = {}
  /\ wmAfterStop = [claims |-> FALSE, dispatches |-> FALSE]
  /\ wmOffline = NotOffline

RestWM ==
  /\ isRunning = FALSE
  /\ jobPollingInterval = FALSE
  /\ heartbeatInterval = FALSE
  /\ maxConcurrentJobs = 1
  /\ currentJobs = [j \in {} |-> 0]
  /\ wmExecutions = [e \in ExecIds |-> NoExecution]
  /\ wmStarted = 0
  /\ wmPolls = [p \in PollIds |-> NoPoll]
  /\ jobQueue = [j \in JobIds |-> "pending"]
  /\ workerRow = "idle"
  /\ stopPc = "idle"
  /\ stopAwaits = {}
  /\ wmAfterStop = [claims |-> FALSE, dispatches |-> FALSE]
  /\ wmOffline = NotOffline

\* this.currentJobs.size
Size == Cardinality(DOMAIN currentJobs)

\* the capacity test with <= in place of <
canAcceptMoreJobsMutant == Size <= maxConcurrentJobs

\* canAcceptMoreJobs
canAcceptMoreJobs == Size < maxConcurrentJobs

\* the executions that have started and not settled
Executing == {e \in ExecIds : wmExecutions[e].pc = "running"}

stopCalled == stopPc # "idle"

\* claim_next_job hands out the first claimable job of the queue
NextJob(j) == jobQueue[j] = "pending" /\ \A k \in JobIds : k < j => jobQueue[k] # "pending"

\* a guard that lets one pollForJobs run at a time
PollGuardMutant(p) == \A q \in PollIds : ~wmPolls[q].active

\* the timer callback's test before pollForJobs: nothing keeps a second
\* cycle from starting while an earlier one awaits its claim
PollGuard(p) == ~wmPolls[p].active /\ \A q \in PollIds : q < p => wmPolls[q].active

\* the polling timer fires and pollForJobs runs to its first await: the
\* slots are counted once and claim_next_job is called
PollTick(p) ==
  /\ UNCHANGED otherThanWM
  /\ jobPollingInterval
  /\ PollGuard(p)
  /\ isRunning /\ canAcceptMoreJobs
  /\ wmPolls' = [wmPolls EXCEPT ![p] =
                   [active |-> TRUE, availableSlots |-> maxConcurrentJobs - Size, i |-> 0]]
  /\ UNCHANGED <<isRunning, jobPollingInterval, heartbeatInterval, maxConcurrentJobs,
                 currentJobs, wmExecutions, wmStarted, jobQueue, workerRow,
                 stopPc, stopAwaits, wmAfterStop, wmOffline>>

\* claim_next_job answers with job j: processJob(job) starts its execution
\* and sets the Map entry; then i++ and either the next claim call or the end
ClaimReturnsJob(p, j, e) ==
  /\ UNCHANGED otherThanWM
  /\ wmPolls[p].active
  /\ NextJob(j)
  /\ wmStarted < MaxExecutions
  /\ wmStarted' = wmStarted + 1
  /\ wmExecutions[e].pc = "none"
  /\ \A f \in ExecIds : f < e => wmExecutions[f].pc # "none"
  /\ jobQueue' = [jobQueue EXCEPT ![j] = "claimed"]
  /\ wmExecutions' = [wmExecutions EXCEPT ![e] = [job |-> j, pc |-> "running"]]
  /\ currentJobs' = [k \in DOMAIN currentJobs \cup {j} |->
                       IF k = j THEN e ELSE currentJobs[k]]
  /\ LET more == wmPolls[p].i + 1 < wmPolls[p].availableSlots
     IN /\ wmPolls' = [wmPolls EXCEPT ![p] =
                         IF more THEN [@ EXCEPT !.i = @ + 1] ELSE NoPoll]
        /\ wmAfterStop' =
             IF stopCalled
             THEN [claims |-> wmAfterStop.claims \/ more, dispatches |-> TRUE]
             ELSE wmAfterStop
  /\ UNCHANGED <<isRunning, jobPollingInterval, heartbeatInterval, maxConcurrentJobs,
                 workerRow, stopPc, stopAwaits, wmOffline>>

\* claim_next_job answers with no job, or with an error: the loop breaks
ClaimReturnsNone(p) ==
  /\ UNCHANGED otherThanWM
  /\ wmPolls[p].active
  /\ wmPolls' = [wmPolls EXCEPT ![p] = NoPoll]
  /\ UNCHANGED <<isRunning, jobPollingInterval, heartbeatInterval, maxConcurrentJobs,
                 currentJobs, wmExecutions, wmStarted, jobQueue, workerRow,
                 stopPc, stopAwaits, wmAfterStop, wmOffline>>

\* executeJob of execution e settles, the job's row written completed or
\* failed (one final status here): the finally handler deletes the Map entry
\* of its job id
JobFinishes(e) ==
  /\ UNCHANGED otherThanWM
  /\ wmExecutions[e].pc = "running"
  /\ LET j == wmExecutions[e].job
     IN /\ jobQueue' = [jobQueue EXCEPT ![j] = "finished"]
        /\ currentJobs' = [k \in DOMAIN currentJobs \ {j} |-> currentJobs[k]]
  /\ wmExecutions' = [wmExecutions EXCEPT ![e] = NoExecution]
  /\ stopAwaits' = stopAwaits \ {e}
  /\ UNCHANGED <<isRunning, jobPollingInterval, heartbeatInterval, maxConcurrentJobs,
                 wmStarted, wmPolls, workerRow, stopPc, wmAfterStop,
                 wmOffline>>

\* release_expired_claims: the lease of a claimed job has run out and the
\* job is claimable again, whether or not its execution still runs
ReleaseExpiredClaims(j) ==
  /\ UNCHANGED otherThanWM
  /\ jobQueue[j] = "claimed"
  /\ jobQueue' = [jobQueue EXCEPT ![j] = "pending"]
  /\ UNCHANGED <<isRunning, jobPollingInterval, heartbeatInterval, maxConcurrentJobs,
                 currentJobs, wmExecutions, wmStarted, wmPolls, workerRow,
                 stopPc, stopAwaits, wmAfterStop, wmOffline>>

\* the heartbeat timer fires: sendHeartbeat writes busy or idle to the
\* worker's row
sendHeartbeat ==
  /\ UNCHANGED otherThanWM
  /\ heartbeatInterval
  /\ workerRow' = IF Size > 0 THEN "busy" ELSE "idle"
  /\ UNCHANGED <<isRunning, jobPollingInterval, heartbeatInterval, maxConcurrentJobs,
                 currentJobs, wmExecutions, wmStarted, wmPolls, jobQueue,
                 stopPc, stopAwaits, wmAfterStop, wmOffline>>

\* unregisterWorker sends its update: status offline
Unregister(timedOut) ==
  /\ stopPc' = "unregistering"
  /\ wmOffline' = [written |-> TRUE, executing |-> Cardinality(Executing),
                   timedOut |-> timedOut]

\* stop() up to its first await: the flag, the timers, the jobPromises
\* collected from the Map, then the race or, with none, unregisterWorker
StopBegins ==
  /\ UNCHANGED otherThanWM
  /\ stopPc = "idle"
  /\ isRunning' = FALSE
  /\ jobPollingInterval' = FALSE
  /\ heartbeatInterval' = FALSE
  /\ LET jobPromises == {currentJobs[j] : j \in DOMAIN currentJobs}
     IN IF jobPromises = {}
        THEN Unregister(FALSE) /\ UNCHANGED stopAwaits
        ELSE /\ stopPc' = "draining"
             /\ stopAwaits' = jobPromises
             /\ UNCHANGED wmOffline
  /\ UNCHANGED <<maxConcurrentJobs, currentJobs, wmExecutions, wmStarted, wmPolls, jobQueue,
                 workerRow, wmAfterStop>>

\* Promise.all(jobPromises) resolves: every collected promise has settled
StopDrained ==
  /\ UNCHANGED otherThanWM
  /\ stopPc = "draining"
  /\ stopAwaits = {}
  /\ Unregister(FALSE)
  /\ UNCHANGED stopAwaits
  /\ UNCHANGED <<isRunning, jobPollingInterval, heartbeatInterval, maxConcurrentJobs,
                 currentJobs, wmExecutions, wmStarted, wmPolls, jobQueue, workerRow,
                 wmAfterStop>>

\* the 60 second timer of the race fires while a collected promise is pending
StopTimesOut ==
  /\ UNCHANGED otherThanWM
  /\ stopPc = "draining"
  /\ stopAwaits # {}
  /\ Unregister(TRUE)
  /\ stopAwaits' = {}
  /\ UNCHANGED <<isRunning, jobPollingInterval, heartbeatInterval, maxConcurrentJobs,
                 currentJobs, wmExecutions, wmStarted, wmPolls, jobQueue, workerRow,
                 wmAfterStop>>

\* the offline update reaches the workers table and stop() returns
UnregisterApplied ==
  /\ UNCHANGED otherThanWM
  /\ stopPc = "unregistering"
  /\ workerRow' = "offline"
  /\ stopPc' = "stopped"
  /\ UNCHANGED <<isRunning, jobPollingInterval, heartbeatInterval, maxConcurrentJobs,
                 currentJobs, wmExecutions, wmStarted, wmPolls, jobQueue,
                 stopAwaits, wmAfterStop, wmOffline>>

\* no heartbeat update in flight
RestHb == hbInFlight = "none"

\* the heartbeat timer fires: sendHeartbeat builds its update from the size
\* of the Map and sends it
HeartbeatSent ==
  /\ UNCHANGED otherThanHb
  /\ UNCHANGED wmVars
  /\ heartbeatInterval
  /\ hbInFlight = "none"
  /\ hbInFlight' = IF Size > 0 THEN "busy" ELSE "idle"

\* the update of the heartbeat reaches the workers table
HeartbeatApplied ==
  /\ UNCHANGED otherThanHb
  /\ hbInFlight # "none"
  /\ workerRow' = hbInFlight
  /\ hbInFlight' = "none"
  /\ UNCHANGED <<isRunning, jobPollingInterval, heartbeatInterval, maxConcurrentJobs,
                 currentJobs, wmExecutions, wmStarted, wmPolls, jobQueue,
                 stopPc, stopAwaits, wmAfterStop, wmOffline>>

NextWM ==
  \/ \E p \in PollIds : PollTick(p)
  \/ \E p \in PollIds, j \in JobIds, e \in ExecIds : ClaimReturnsJob(p, j, e)
  \/ \E p \in PollIds : ClaimReturnsNone(p)
  \/ \E e \in ExecIds : JobFinishes(e)
  \/ \E j \in JobIds : ReleaseExpiredClaims(j)
  \/ sendHeartbeat
  \/ StopBegins
  \/ StopDrained
  \/ StopTimesOut
  \/ UnregisterApplied

NextWMCycles ==
  \/ \E p \in PollIds : PollTick(p)
  \/ \E p \in PollIds, j \in JobIds, e \in ExecIds : ClaimReturnsJob(p, j, e)
  \/ \E p \in PollIds : ClaimReturnsNone(p)
  \/ \E e \in ExecIds : JobFinishes(e)
  \/ \E j \in JobIds : ReleaseExpiredClaims(j)

\* the worker with the heartbeat's update sent and applied in two steps
NextWMHeartbeat ==
  \/ \E p \in PollIds : PollTick(p)
  \/ \E p \in PollIds, j \in JobIds, e \in ExecIds : ClaimReturnsJob(p, j, e)
  \/ \E p \in PollIds : ClaimReturnsNone(p)
  \/ \E e \in ExecIds : JobFinishes(e)
  \/ HeartbeatSent
  \/ HeartbeatApplied
  \/ StopBegins
  \/ StopDrained
  \/ StopTimesOut
  \/ UnregisterApplied

(***************************************************************************)
(* pollForResults, the same loop in JobProcessor and ScalableJobProcessor, *)
(* and the catch block of the phase that called it.                        *)
(***************************************************************************)
\* const maxAttempts = 60
maxAttempts == 60

Processors == {"JobProcessor", "ScalableJobProcessor"}

\* how many items a result carries: none, a few, or a full sample of 10
ItemCounts == {0, MaxReviews, 10}

NoResult == [reviews_count |-> 0, items |-> 0, set |-> FALSE]

\* task.result[0] of a complete task: its reviews_count and how many items,
\* which are no more than the count
Results ==
  {r \in [reviews_count : 0..MaxTotal, items : ItemCounts, set : {TRUE}] :
     r.items <= r.reviews_count}

\* { items: [], reviews_count: 0 }
EmptyResult == [reviews_count |-> 0, items |-> 0, set |-> TRUE]

\* what one getTaskResult call can bring: a complete task with a result, a
\* task still processing (20100), a task with another status code, a
\* complete task with no result, an answer without tasks, a raised error
Responses ==
  {[kind |-> "ready", result |-> r] : r \in Results} \cup
  {[kind |-> k, result |-> NoResult] :
     k \in {"processing", "failed", "empty", "notasks", "error"}}

\* the statuses of a task that is over
Terminal(r) == r.kind \in {"ready", "failed", "empty"}

\* the row's status once createSyncJob / createReviewSyncJob has inserted it
InsertedStatus(caller) == IF caller = "JobProcessor" THEN "processing" ELSE "running"

\* Math.min
Min(a, b) == IF a <= b THEN a ELSE b

\* progress is kept in the unit of progressIncrement, (50 - 30) / maxAttempts
\* of a percent, so that every value written is a whole number
ProgressUnit == maxAttempts \div (50 - 30)

Pct(percent) == percent * ProgressUnit

\* const progressIncrement = Math.min(2, (50 - 30) / maxAttempts)
progressIncrement == Min(Pct(2), (Pct(50) - Pct(30)) \div maxAttempts)

\* progress_percentage as the insert of the run writes it
InsertedProgress(caller) == IF caller = "JobProcessor" THEN Pct(0) ELSE Pct(5)

\* no row of review_sync_jobs yet
RestRun ==
  /\ runImported = 0
  /\ runSkipped = 0
  /\ runErrors = 0
  /\ runTotal = 0
  /\ runProgress = 0

\* processPhase2 not called
RestP2 ==
  /\ totalReviews = 0
  /\ chunk = 0
  /\ totalImported = 0
  /\ p2Submitted = <<>>
  /\ p2ChunksDone = 0
  /\ p2ImportSum = 0
  /\ p2Sample = 0

\* no import pass made
RestUp ==
  /\ upProcessor = "ScalableJobProcessor"
  /\ stored = {}
  /\ generated = 0
  /\ passes = <<>>

\* no import of retrieved reviews under way
\* payload.url: missing, a url of another site, a TripAdvisor url
Urls == {"", "https://www.example.com/Reviews-d1.html",
         "https://www.tripadvisor.com/Reviews-d1.html"}

\* url.includes('tripadvisor.com')
IncludesTripAdvisor(url) == url = "https://www.tripadvisor.com/Reviews-d1.html"

\* job.payload as the checks of validateTripAdvisorPayload see it: user_id
\* ("" when missing), url, and typeof payload.full_history
Payloads == [user_id : {"", "user-1"}, url : Urls, full_history : {"boolean", "string"}]

\* a payload that passes every check
ValidPayload ==
  [user_id |-> "user-1", url |-> "https://www.tripadvisor.com/Reviews-d1.html",
   full_history |-> "boolean"]

\* a validation that lets every payload through
validateTripAdvisorPayloadMutant(payload) == TRUE

\* validateTripAdvisorPayload(payload) returns (it raises otherwise)
validateTripAdvisorPayload(payload) ==
  /\ payload.user_id # ""
  /\ payload.url # ""
  /\ IncludesTripAdvisor(payload.url)
  /\ payload.full_history = "boolean"

\* no task creation has been answered
NoCreation == [tasks |-> 0, status_code |-> -1]

RestImp ==
  /\ lastReviewDate = 0
  /\ allReviews = <<>>
  /\ reviewsToImport = <<>>
  /\ upserted = <<>>
  /\ full_history = FALSE
  /\ batchSize = 20
  /\ created = NoCreation
  /\ taPoll = "none"
  /\ batchAt = 0
  /\ importedCount = 0
  /\ skipped = 0
  /\ errors = 0
  /\ queueJob = [status |-> "processing", error_message |-> FALSE,
                 job_type |-> "tripadvisor_import", payload |-> ValidPayload]
  /\ runErrorSet = FALSE

\* a phase that has just called pollForResults
InitPoll ==
  /\ pollCaller \in Processors
  /\ phasePc = "pollForResults"
  /\ pPc = "delay"
  /\ pAttempt = 1
  /\ pFetches = 0
  /\ pFailedSeen = FALSE
  /\ pNonTerminalOnly = TRUE
  /\ pResult = NoResult
  /\ pError = "none"
  /\ runStatus = InsertedStatus(pollCaller)
  /\ immediates = 0
  /\ phase2Started = 0
  /\ runImported = 0
  /\ runSkipped = 0
  /\ runErrors = 0
  /\ runTotal = 0
  /\ runProgress = Pct(30)

RestIP ==
  /\ pollCaller = "ScalableJobProcessor"
  /\ phasePc = "rest"
  /\ pPc = "rest"
  /\ pAttempt = 1
  /\ pFetches = 0
  /\ pFailedSeen = FALSE
  /\ pNonTerminalOnly = TRUE
  /\ pResult = NoResult
  /\ pError = "none"
  /\ runStatus = "none"
  /\ immediates = 0
  /\ phase2Started = 0

LoopContinuesMutant(attempt) == attempt <= maxAttempts + 1

\* attempt <= maxAttempts
LoopContinues(attempt) == attempt <= maxAttempts

\* if (attempt > maxAttempts / 2) throw error
Rethrows(attempt) == 2 * attempt > maxAttempts

\* pollForResults raises: the exception reaches the catch block of the phase
PollThrows(error) ==
  /\ pPc' = "thrown"
  /\ pError' = error
  /\ phasePc' = "catch"
  /\ UNCHANGED <<pAttempt, pResult>>

\* pollForResults returns a result to the phase
PollReturns(result) ==
  /\ pPc' = "returned"
  /\ pResult' = result
  /\ phasePc' = "afterPoll"
  /\ UNCHANGED <<pAttempt, pError>>

\* attempt++ and the loop test: the next delay, or the timeout error
PollNextAttempt ==
  IF LoopContinues(pAttempt + 1)
  THEN /\ pAttempt' = pAttempt + 1
       /\ pPc' = "delay"
       /\ UNCHANGED <<pResult, pError, phasePc>>
  ELSE PollThrows("timeout")

\* the 10 second timer ends (JobProcessor then updates the progress) and
\* getTaskResult is called
PollDelayElapsed ==
  /\ UNCHANGED otherThanIP
  /\ pPc = "delay"
  /\ pPc' = "fetch"
  /\ pFetches' = pFetches + 1
  /\ runProgress' = IF pollCaller = "JobProcessor"
                    THEN Min(Pct(30) + pAttempt * progressIncrement, Pct(100))
                    ELSE runProgress
  /\ UNCHANGED <<runImported, runSkipped, runErrors, runTotal>>
  /\ UNCHANGED <<pollCaller, phasePc, pAttempt, pFailedSeen, pNonTerminalOnly, pResult,
                 pError, runStatus, immediates, phase2Started>>

\* getTaskResult settles with r: the rest of the loop body, the catch block
\* included, up to the next await or to the end of pollForResults
PollResponse(r) ==
  /\ UNCHANGED otherThanIP
  /\ UNCHANGED runVars
  /\ pPc = "fetch"
  /\ pFailedSeen' = (pFailedSeen \/ r.kind = "failed")
  /\ pNonTerminalOnly' = (pNonTerminalOnly /\ r.kind \in {"processing", "notasks"})
  /\ CASE r.kind = "ready" -> PollReturns(r.result)
       [] r.kind = "empty" -> PollReturns(EmptyResult)
       [] r.kind \in {"processing", "notasks"} -> PollNextAttempt
       [] r.kind = "failed" ->
            IF Rethrows(pAttempt) THEN PollThrows("taskFailed") ELSE PollNextAttempt
       [] r.kind = "error" ->
            IF Rethrows(pAttempt) THEN PollThrows("fetchError") ELSE PollNextAttempt
  /\ UNCHANGED <<pollCaller, pFetches, runStatus, immediates, phase2Started>>

\* the catch block of the phase: failJob writes status failed and the error
\* message to the run (JobProcessor: to the job_queue row too) and the error
\* is raised to the caller
failJobMutant ==
  /\ UNCHANGED otherThanImp
  /\ UNCHANGED runVars
  /\ phasePc = "catch"
  /\ runStatus' = runStatus
  /\ runErrorSet' = runErrorSet
  /\ queueJob' = queueJob
  /\ phasePc' = "thrown"
  /\ UNCHANGED <<pollCaller, pPc, pAttempt, pFetches, pFailedSeen, pNonTerminalOnly,
                 pResult, pError, immediates, phase2Started>>
  /\ UNCHANGED <<lastReviewDate, allReviews, reviewsToImport, upserted, full_history,
                 batchSize, created, taPoll, batchAt, importedCount, skipped, errors>>

failJob ==
  /\ UNCHANGED otherThanImp
  /\ UNCHANGED runVars
  /\ phasePc = "catch"
  /\ runStatus' = IF runStatus = "none" THEN "none" ELSE "failed"
  /\ runErrorSet' = (runStatus # "none")
  /\ queueJob' = IF pollCaller = "JobProcessor"
                 THEN [queueJob EXCEPT !.status = "failed", !.error_message = TRUE]
                 ELSE queueJob
  /\ phasePc' = "thrown"
  /\ UNCHANGED <<lastReviewDate, allReviews, reviewsToImport, upserted, full_history,
                 batchSize, created, taPoll, batchAt, importedCount, skipped, errors>>
  /\ UNCHANGED <<pollCaller, pPc, pAttempt, pFetches, pFailedSeen, pNonTerminalOnly,
                 pResult, pError, immediates, phase2Started>>

NextPoll ==
  \/ PollDelayElapsed
  \/ \E r \in Responses : PollResponse(r)
  \/ failJob

(***************************************************************************)
(* ScalableJobProcessor.processPhase1: the count task, the sample import,  *)
(* the status write, and the Phase 2 it schedules with setImmediate.       *)
(***************************************************************************)
\* the sample size: depth 10, totalAvailable > 10
SampleSize == 10

\* result.reviews_count || 0
totalAvailable == pResult.reviews_count

\* result.items || []  (how many)
sampleReviews == pResult.items

SchedulesPhase2Mutant(total) == total >= SampleSize

\* if (totalAvailable > 10) await this.schedulePhase2(...)
SchedulesPhase2(total) == total > SampleSize

\* processPhase1 has been called
InitPhase1 ==
  /\ pollCaller = "ScalableJobProcessor"
  /\ phasePc = "createSyncJob"
  /\ pPc = "rest"
  /\ pAttempt = 1
  /\ pFetches = 0
  /\ pFailedSeen = FALSE
  /\ pNonTerminalOnly = TRUE
  /\ pResult = NoResult
  /\ pError = "none"
  /\ runStatus = "none"
  /\ immediates = 0
  /\ phase2Started = 0

\* createSyncJob inserts the run, or raises outside the try block
P1CreateSyncJob(ok) ==
  /\ UNCHANGED otherThanIP
  /\ phasePc = "createSyncJob"
  /\ IF ok
     THEN /\ runStatus' = InsertedStatus(pollCaller)
          /\ runProgress' = InsertedProgress(pollCaller)
          /\ phasePc' = "createTask"
     ELSE /\ runStatus' = runStatus
          /\ runProgress' = runProgress
          /\ phasePc' = "thrown"
  /\ UNCHANGED <<runImported, runSkipped, runErrors, runTotal>>
  /\ UNCHANGED <<pollCaller, pPc, pAttempt, pFetches, pFailedSeen, pNonTerminalOnly,
                 pResult, pError, immediates, phase2Started>>

\* updateProgress(10); createDataForSEOTask returns the task id, progress 30
\* is written and pollForResults starts its first delay, or the task
\* creation raises
P1CreateTask(ok) ==
  /\ UNCHANGED otherThanIP
  /\ runProgress' = IF ok THEN Pct(30) ELSE Pct(10)
  /\ UNCHANGED <<runImported, runSkipped, runErrors, runTotal>>
  /\ phasePc = "createTask"
  /\ IF ok
     THEN phasePc' = "pollForResults" /\ pPc' = "delay"
     ELSE phasePc' = "catch" /\ pPc' = pPc
  /\ UNCHANGED <<pollCaller, pAttempt, pFetches, pFailedSeen, pNonTerminalOnly,
                 pResult, pError, runStatus, immediates, phase2Started>>

\* importReviews of the sample, called when the sample is not empty: the
\* upsert succeeds, or its error is raised
P1ImportSample(ok) ==
  /\ UNCHANGED otherThanIP
  /\ UNCHANGED runVars
  /\ phasePc = "afterPoll"
  /\ sampleReviews = 0 => ok
  /\ phasePc' = IF ok THEN "updateSyncJob" ELSE "catch"
  /\ UNCHANGED <<pollCaller, pPc, pAttempt, pFetches, pFailedSeen, pNonTerminalOnly,
                 pResult, pError, runStatus, immediates, phase2Started>>

\* updateSyncJob writes the total and the status of the run
P1MarkComplete ==
  /\ UNCHANGED otherThanIP
  /\ phasePc = "updateSyncJob"
  /\ runStatus' = IF totalAvailable > SampleSize THEN "phase_1_complete" ELSE "completed"
  /\ runTotal' = totalAvailable
  /\ runImported' = sampleReviews
  /\ phasePc' = "updateProgress"
  /\ UNCHANGED <<runSkipped, runErrors, runProgress>>
  /\ UNCHANGED <<pollCaller, pPc, pAttempt, pFetches, pFailedSeen, pNonTerminalOnly,
                 pResult, pError, immediates, phase2Started>>

\* updateProgress(100) has settled: schedulePhase2 queues its callback when
\* more reviews are available, and processPhase1 returns
P1ScheduleAndReturn ==
  /\ UNCHANGED otherThanIP
  /\ phasePc = "updateProgress"
  /\ immediates' = IF SchedulesPhase2(totalAvailable) THEN immediates + 1 ELSE immediates
  /\ runProgress' = Pct(100)
  /\ phasePc' = "returned"
  /\ UNCHANGED <<runImported, runSkipped, runErrors, runTotal>>
  /\ UNCHANGED <<pollCaller, pPc, pAttempt, pFetches, pFailedSeen, pNonTerminalOnly,
                 pResult, pError, runStatus, phase2Started>>

\* a queued callback runs: processPhase2 is entered and writes its status
Phase2Starts ==
  /\ UNCHANGED otherThanIP
  /\ UNCHANGED runVars
  /\ immediates > 0
  /\ immediates' = immediates - 1
  /\ phase2Started' = phase2Started + 1
  /\ runStatus' = "phase_2_processing"
  /\ UNCHANGED <<pollCaller, phasePc, pPc, pAttempt, pFetches, pFailedSeen,
                 pNonTerminalOnly, pResult, pError>>

\* how a write to the run can fail: the awaited update resolves with an
\* error object, which updateProgress and updateSyncJob never read, or the
\* awaited update rejects
WriteOutcomes == {"error", "rejected"}

\* updateSyncJob with the total and the status fails: the row keeps what it
\* had; after an unread error the phase goes on, a rejection is caught
P1UpdateSyncJobFails(outcome) ==
  /\ UNCHANGED otherThanIP
  /\ UNCHANGED runVars
  /\ phasePc = "updateSyncJob"
  /\ phasePc' = IF outcome = "error" THEN "updateProgress" ELSE "catch"
  /\ UNCHANGED ipVarsButPc

\* updateProgress(100) fails: after an unread error schedulePhase2 and the
\* return follow as in P1ScheduleAndReturn, a rejection is caught
P1UpdateProgressFails(outcome) ==
  /\ UNCHANGED otherThanIP
  /\ UNCHANGED runVars
  /\ phasePc = "updateProgress"
  /\ immediates' = IF outcome = "error" /\ SchedulesPhase2(totalAvailable)
                   THEN immediates + 1 ELSE immediates
  /\ phasePc' = IF outcome = "error" THEN "returned" ELSE "catch"
  /\ UNCHANGED <<pollCaller, pPc, pAttempt, pFetches, pFailedSeen, pNonTerminalOnly,
                 pResult, pError, runStatus, phase2Started>>

NextPhase1 ==
  \/ \E ok \in BOOLEAN : P1CreateSyncJob(ok)
  \/ \E ok \in BOOLEAN : P1CreateTask(ok)
  \/ PollDelayElapsed
  \/ \E r \in Responses : PollResponse(r)
  \/ \E ok \in BOOLEAN : P1ImportSample(ok)
  \/ P1MarkComplete
  \/ P1ScheduleAndReturn
  \/ Phase2Starts
  \/ failJob

\* processPhase1 with writes of the run that can fail
NextPhase1Writes ==
  \/ \E ok \in BOOLEAN : P1CreateSyncJob(ok)
  \/ \E ok \in BOOLEAN : P1CreateTask(ok)
  \/ PollDelayElapsed
  \/ \E r \in Responses : PollResponse(r)
  \/ \E ok \in BOOLEAN : P1ImportSample(ok)
  \/ P1MarkComplete
  \/ \E outcome \in WriteOutcomes : P1UpdateSyncJobFails(outcome)
  \/ P1ScheduleAndReturn
  \/ \E outcome \in WriteOutcomes : P1UpdateProgressFails(outcome)
  \/ Phase2Starts
  \/ failJob

(***************************************************************************)
(* ScalableJobProcessor.processPhase2: the remaining reviews, fetched and  *)
(* imported in chunks of 500, one chunk after the other.                   *)
(***************************************************************************)
\* const chunkSize = 500
chunkSize == 500

\* depth: Math.min(depth, 4490) in createDataForSEOTaskWithOffset
DepthCap == 4490

\* Math.ceil(a / b) for b > 0
Ceil(a, b) == -((-a) \div b)

\* Math.round(a / b) for a >= 0, b > 0
Round(a, b) == (2 * a + b) \div (2 * b)

\* const totalChunks = Math.ceil((totalReviews - 10) / chunkSize)
totalChunks == Ceil(totalReviews - 10, chunkSize)

\* const startOffset = 10 + (chunk * chunkSize)
startOffset == 10 + (chunk * chunkSize)

endOffsetMutant == startOffset + chunkSize

\* const endOffset = Math.min(startOffset + chunkSize, totalReviews)
endOffset == Min(startOffset + chunkSize, totalReviews)

\* const reviewsInChunk = endOffset - startOffset
reviewsInChunk == endOffset - startOffset

\* const chunkProgress = Math.round((chunk / totalChunks) * 80) + 10
chunkProgress == Pct(Round(chunk * 80, totalChunks) + 10)

\* the totals processPhase2 is called with (schedulePhase2 is reached for a
\* total above 10 only): up to MaxChunks chunks, the last one of 1, of 200 or
\* of 500 reviews
Phase2Totals ==
  {10 + (k * chunkSize) + d : k \in 0..(MaxChunks - 1), d \in {1, 200, chunkSize}}

\* what a fetch can bring for a chunk.  processPhase2 reads only the items of
\* a result: one reviews_count stands for all, and a chunk brings no item
\* or a few
ChunkResponses ==
  {r \in Responses : /\ r.result.reviews_count \in {0, MaxTotal}
                     /\ r.result.items <= MaxReviews}

\* getTaskResult settles for a chunk, with no more items than the depth asked
P2PollResponse(r) ==
  /\ r.result.items <= reviewsInChunk
  /\ PollResponse(r)

\* pollForResults has returned and its result was read: its locals are gone
PollOver ==
  /\ pPc' = "rest"
  /\ pAttempt' = 1
  /\ pFetches' = 0
  /\ pFailedSeen' = FALSE
  /\ pNonTerminalOnly' = TRUE
  /\ pResult' = NoResult
  /\ pError' = "none"

\* pollForResults is called: its locals are fresh
PollCalled ==
  /\ pPc' = "delay"
  /\ pAttempt' = 1
  /\ pFetches' = 0
  /\ pFailedSeen' = FALSE
  /\ pNonTerminalOnly' = TRUE
  /\ pResult' = NoResult
  /\ pError' = "none"

\* processPhase2 has been called for a run that Phase 1 left at
\* phase_1_complete, with the sample it imported
InitPhase2 ==
  /\ totalReviews \in Phase2Totals
  /\ p2Sample \in ItemCounts \ {0}
  /\ chunk = 0
  /\ totalImported = 0
  /\ p2Submitted = <<>>
  /\ p2ChunksDone = 0
  /\ p2ImportSum = 0
  /\ pollCaller = "ScalableJobProcessor"
  /\ phasePc = "processPhase2"
  /\ pPc = "rest"
  /\ pAttempt = 1
  /\ pFetches = 0
  /\ pFailedSeen = FALSE
  /\ pNonTerminalOnly = TRUE
  /\ pResult = NoResult
  /\ pError = "none"
  /\ runStatus = "phase_1_complete"
  /\ immediates = 0
  /\ phase2Started = 1
  /\ runImported = p2Sample
  /\ runSkipped = 0
  /\ runErrors = 0
  /\ runTotal = totalReviews
  /\ runProgress = Pct(100)

\* the first write of processPhase2 and the locals of its loop
P2Begin ==
  /\ UNCHANGED otherThanP2
  /\ phasePc = "processPhase2"
  /\ runStatus' = "phase_2_processing"
  /\ chunk' = 0
  /\ totalImported' = 10
  /\ phasePc' = "chunkLoop"
  /\ UNCHANGED <<pollCaller, pPc, pAttempt, pFetches, pFailedSeen, pNonTerminalOnly,
                 pResult, pError, immediates, phase2Started>>
  /\ UNCHANGED runVars
  /\ UNCHANGED <<totalReviews, p2Submitted, p2ChunksDone, p2ImportSum, p2Sample>>

\* one more chunk: its progress is written, its task is submitted with the
\* chunk's offset and depth and pollForResults is called, or the submission
\* raises
P2SubmitChunk(ok) ==
  /\ UNCHANGED otherThanP2
  /\ phasePc = "chunkLoop"
  /\ chunk < totalChunks
  /\ runProgress' = chunkProgress
  /\ IF ok
     THEN /\ p2Submitted' = Append(p2Submitted,
                                   [offset |-> startOffset,
                                    depth |-> Min(reviewsInChunk, DepthCap)])
          /\ PollCalled
          /\ phasePc' = "pollForResults"
     ELSE /\ phasePc' = "catch"
          /\ UNCHANGED <<p2Submitted, pPc, pAttempt, pFetches, pFailedSeen,
                         pNonTerminalOnly, pResult, pError>>
  /\ UNCHANGED <<pollCaller, runStatus, immediates, phase2Started>>
  /\ UNCHANGED <<runImported, runSkipped, runErrors, runTotal>>
  /\ UNCHANGED <<totalReviews, chunk, totalImported, p2ChunksDone, p2ImportSum, p2Sample>>

\* the chunk's result is in: importReviews when it has items (the upsert
\* reports its count, or none, or raises), the running count is written,
\* and after the pause the loop goes to the next chunk
P2ImportChunk(ok, counted) ==
  /\ UNCHANGED otherThanP2
  /\ phasePc = "afterPoll"
  /\ LET chunkReviews == pResult.items
         imported == IF counted THEN chunkReviews ELSE 0
     IN /\ chunkReviews = 0 => (ok /\ ~counted)
        /\ IF ok
           THEN /\ totalImported' = totalImported + imported
                /\ p2ImportSum' = p2ImportSum + imported
                /\ runImported' = IF chunkReviews > 0 THEN totalImported' ELSE runImported
                /\ chunk' = chunk + 1
                /\ p2ChunksDone' = p2ChunksDone + 1
                /\ phasePc' = "chunkLoop"
           ELSE /\ phasePc' = "catch"
                /\ UNCHANGED <<totalImported, p2ImportSum, runImported, chunk, p2ChunksDone>>
  /\ PollOver
  /\ UNCHANGED <<pollCaller, runStatus, immediates, phase2Started>>
  /\ UNCHANGED <<runSkipped, runErrors, runTotal, runProgress>>
  /\ UNCHANGED <<totalReviews, p2Submitted, p2Sample>>

\* the loop is over: status completed and the count are written, progress
\* 100, and processPhase2 returns
P2Complete ==
  /\ UNCHANGED otherThanP2
  /\ phasePc = "chunkLoop"
  /\ ~(chunk < totalChunks)
  /\ runStatus' = "completed"
  /\ runImported' = totalImported
  /\ runProgress' = Pct(100)
  /\ phasePc' = "returned"
  /\ UNCHANGED <<pollCaller, pPc, pAttempt, pFetches, pFailedSeen, pNonTerminalOnly,
                 pResult, pError, immediates, phase2Started>>
  /\ UNCHANGED <<runSkipped, runErrors, runTotal>>
  /\ UNCHANGED p2Vars

NextPhase2 ==
  \/ P2Begin
  \/ \E ok \in BOOLEAN : P2SubmitChunk(ok)
  \/ PollDelayElapsed
  \/ \E r \in ChunkResponses : P2PollResponse(r)
  \/ \E ok, counted \in BOOLEAN : P2ImportChunk(ok, counted)
  \/ P2Complete
  \/ failJob

(***************************************************************************)
(* ScalableJobProcessor.processPhase3: the watermark, the task of depth 50, *)
(* the filter, the import of what the filter kept, the completion.         *)
(***************************************************************************)
\* a date field of a review, or the watermark: 0 when it is missing
Stamps == 0..MaxStamp

\* what the filter reads of a retrieved review: its timestamp, and a date of
\* visit that is missing or the latest date
Reviews == [timestamp : Stamps, date_of_visit : {0, MaxStamp}]

ReviewLists(n) == [1..n -> Reviews]

\* const reviewDate = review.timestamp || review.date_of_visit
reviewDate(review) ==
  IF review.timestamp # 0 THEN review.timestamp ELSE review.date_of_visit

\* reviewDate && new Date(reviewDate) > new Date(lastReviewDate)
IsNew(review, last) ==
  reviewDate(review) # 0 /\ reviewDate(review) > last

\* the filter, applied when lastReviewDate is set
NewReviews(all, last) ==
  IF last # 0 THEN SelectSeq(all, LAMBDA review : IsNew(review, last)) ELSE all

\* what a fetch can bring for the task of depth 50: a few reviews or none,
\* and a count that is theirs or larger
Phase3Responses ==
  {r \in Responses : /\ r.result.items <= MaxReviews
                     /\ r.result.reviews_count \in {r.result.items, MaxTotal}}

\* processPhase3 has been called
InitPhase3 ==
  /\ pollCaller = "ScalableJobProcessor"
  /\ phasePc = "createSyncJob"
  /\ pPc = "rest"
  /\ pAttempt = 1
  /\ pFetches = 0
  /\ pFailedSeen = FALSE
  /\ pNonTerminalOnly = TRUE
  /\ pResult = NoResult
  /\ pError = "none"
  /\ runStatus = "none"
  /\ immediates = 0
  /\ phase2Started = 0

\* createSyncJob reads the watermark and inserts the run, or raises outside
\* the try block
P3CreateSyncJob(ok, last) ==
  /\ UNCHANGED otherThanImp
  /\ phasePc = "createSyncJob"
  /\ IF ok
     THEN /\ runStatus' = InsertedStatus(pollCaller)
          /\ runProgress' = InsertedProgress(pollCaller)
          /\ lastReviewDate' = last
          /\ phasePc' = "createTask"
     ELSE /\ last = 0
          /\ phasePc' = "thrown"
          /\ UNCHANGED <<runStatus, runProgress, lastReviewDate>>
  /\ UNCHANGED <<runImported, runSkipped, runErrors, runTotal>>
  /\ UNCHANGED <<pollCaller, pPc, pAttempt, pFetches, pFailedSeen, pNonTerminalOnly,
                 pResult, pError, immediates, phase2Started>>
  /\ UNCHANGED <<allReviews, reviewsToImport, upserted, full_history, batchSize, created, taPoll, batchAt,
                 importedCount, skipped, errors, queueJob, runErrorSet>>

\* updateProgress(20); createDataForSEOTask returns the task id, progress 50
\* is written and pollForResults is called, or the task creation raises
P3CreateTask(ok) ==
  /\ UNCHANGED otherThanImp
  /\ UNCHANGED impVars
  /\ phasePc = "createTask"
  /\ runProgress' = IF ok THEN Pct(50) ELSE Pct(20)
  /\ IF ok
     THEN phasePc' = "pollForResults" /\ PollCalled
     ELSE /\ phasePc' = "catch"
          /\ UNCHANGED <<pPc, pAttempt, pFetches, pFailedSeen, pNonTerminalOnly,
                         pResult, pError>>
  /\ UNCHANGED <<runImported, runSkipped, runErrors, runTotal>>
  /\ UNCHANGED <<pollCaller, runStatus, immediates, phase2Started>>

\* the result is read: its items, and the filter for new reviews
P3Filter ==
  /\ UNCHANGED otherThanImp
  /\ UNCHANGED runVars
  /\ phasePc = "afterPoll"
  /\ \E items \in ReviewLists(pResult.items) :
       /\ allReviews' = items
       /\ reviewsToImport' = NewReviews(items, lastReviewDate)
  /\ phasePc' = IF Len(reviewsToImport') > 0 THEN "importReviews" ELSE "updateSyncJob"
  /\ pPc' = "rest"
  /\ pAttempt' = 1
  /\ pFetches' = 0
  /\ pFailedSeen' = FALSE
  /\ pNonTerminalOnly' = TRUE
  /\ UNCHANGED <<pollCaller, pResult, pError, runStatus, immediates, phase2Started>>
  /\ UNCHANGED <<lastReviewDate, upserted, full_history, batchSize, created, taPoll, batchAt, importedCount, skipped,
                 errors, queueJob, runErrorSet>>

\* importReviews(newReviews): one upsert of all of them, which returns its
\* count (or none) or whose error is raised
P3ImportReviews(ok, counted) ==
  /\ UNCHANGED otherThanImp
  /\ UNCHANGED runVars
  /\ phasePc = "importReviews"
  /\ IF ok
     THEN /\ upserted' = reviewsToImport
          /\ importedCount' = IF counted THEN Len(reviewsToImport) ELSE 0
          /\ phasePc' = "updateSyncJob"
     ELSE /\ ~counted
          /\ phasePc' = "catch"
          /\ UNCHANGED <<upserted, importedCount>>
  /\ UNCHANGED ipVarsButPc
  /\ UNCHANGED <<lastReviewDate, allReviews, reviewsToImport, full_history, batchSize, created, taPoll, batchAt,
                 skipped, errors, queueJob, runErrorSet>>

\* updateSyncJob writes status completed, the count and the total;
\* updateProgress(100); processPhase3 returns
P3MarkComplete ==
  /\ UNCHANGED otherThanImp
  /\ UNCHANGED impVars
  /\ phasePc = "updateSyncJob"
  /\ runStatus' = "completed"
  /\ runImported' = importedCount
  /\ runTotal' = pResult.reviews_count
  /\ runProgress' = Pct(100)
  /\ phasePc' = "returned"
  /\ UNCHANGED <<runSkipped, runErrors>>
  /\ UNCHANGED <<pollCaller, pPc, pAttempt, pFetches, pFailedSeen, pNonTerminalOnly,
                 pResult, pError, immediates, phase2Started>>

NextPhase3 ==
  \/ \E ok \in BOOLEAN, last \in Stamps : P3CreateSyncJob(ok, last)
  \/ \E ok \in BOOLEAN : P3CreateTask(ok)
  \/ PollDelayElapsed
  \/ \E r \in Phase3Responses : PollResponse(r)
  \/ P3Filter
  \/ \E ok, counted \in BOOLEAN : P3ImportReviews(ok, counted)
  \/ P3MarkComplete
  \/ failJob

(***************************************************************************)
(* JobProcessor.processTripAdvisorImport: validation, the run, the count   *)
(* task and the reviews task of a full history import or the one task of   *)
(* an incremental one, importReviews in batches, completeJob.              *)
(***************************************************************************)
\* the answer of the remote API to a task creation: how many tasks it holds
\* and the status code of the first; 20100 is the accepted code
CreationResponses ==
  {[tasks |-> 0, status_code |-> 0],
   [tasks |-> 1, status_code |-> 20100],
   [tasks |-> 1, status_code |-> 40501]}

\* createDataForSEOTask returns a task id for the answer (it raises
\* otherwise): JobProcessor returns result.tasks[0].id, which raises only
\* when there is no first task
createDataForSEOTask(response) == response.tasks > 0

\* job.job_type of a claimed job: the supported type, or any other
JobTypes == {"tripadvisor_import", "other"}

\* this.config.batchSize: one review per batch, or the default of 20
BatchSizes == {1, 20}

batchMutant == SubSeq(reviewsToImport, 1, Min(batchAt + batchSize, Len(reviewsToImport)))

\* reviewsToImport.slice(i, i + batchSize)
batch == SubSeq(reviewsToImport, batchAt + 1, Min(batchAt + batchSize, Len(reviewsToImport)))

\* const progress = 60 + Math.round(((i + batch.length) / reviewsToImport.length) * 35)
batchProgress == Pct(60 + Round((batchAt + Len(batch)) * 35, Len(reviewsToImport)))

\* the locals of pollForResults are gone; the result is kept
PollResultKept ==
  /\ pPc' = "rest"
  /\ pAttempt' = 1
  /\ pFetches' = 0
  /\ pFailedSeen' = FALSE
  /\ pNonTerminalOnly' = TRUE
  /\ UNCHANGED <<pResult, pError>>

\* the worker has started, and processJob has dispatched job 1: its
\* execution is in the Map and executeJob is about to run
DispatchedWM ==
  /\ isRunning = TRUE
  /\ jobPollingInterval = TRUE
  /\ heartbeatInterval = TRUE
  /\ maxConcurrentJobs = 1
  /\ currentJobs = [j \in {1} |-> 1]
  /\ wmExecutions = [e \in ExecIds |->
                       IF e = 1 THEN [job |-> 1, pc |-> "running"] ELSE NoExecution]
  /\ wmStarted = 1
  /\ wmPolls = [p \in PollIds |-> NoPoll]
  /\ jobQueue = [j \in JobIds |-> IF j = 1 THEN "claimed" ELSE "pending"]
  /\ workerRow = "idle"
  /\ stopPc = "idle"
  /\ stopAwaits = {}
  /\ wmAfterStop = [claims |-> FALSE, dispatches |-> FALSE]
  /\ wmOffline = NotOffline

\* executeJob is entered for the job
InitImport ==
  /\ pollCaller = "JobProcessor"
  /\ phasePc = "executeJob"
  /\ pPc = "rest"
  /\ pAttempt = 1
  /\ pFetches = 0
  /\ pFailedSeen = FALSE
  /\ pNonTerminalOnly = TRUE
  /\ pResult = NoResult
  /\ pError = "none"
  /\ runStatus = "none"
  /\ immediates = 0
  /\ phase2Started = 0
  /\ lastReviewDate = 0
  /\ allReviews = <<>>
  /\ reviewsToImport = <<>>
  /\ upserted = <<>>
  /\ full_history \in BOOLEAN
  /\ batchSize \in BatchSizes
  /\ created = NoCreation
  /\ taPoll = "none"
  /\ batchAt = 0
  /\ importedCount = 0
  /\ skipped = 0
  /\ errors = 0
  /\ queueJob \in {[status |-> "claimed", error_message |-> FALSE, job_type |-> t,
                       payload |-> p] : t \in JobTypes, p \in Payloads}
  /\ runErrorSet = FALSE

\* executeJob writes status processing to the job's row and calls
\* processTripAdvisorImport(job.id, job.payload), or, for any other job
\* type, reaches the default branch of its switch
executeJob ==
  /\ UNCHANGED otherThanImp
  /\ UNCHANGED runVars
  /\ phasePc = "executeJob"
  /\ queueJob' = [queueJob EXCEPT !.status = "processing"]
  /\ phasePc' = IF queueJob.job_type = "tripadvisor_import" THEN "validate" ELSE "default"
  /\ UNCHANGED ipVarsButPc
  /\ UNCHANGED <<lastReviewDate, allReviews, reviewsToImport, upserted, full_history,
                 batchSize, created, taPoll, batchAt, importedCount, skipped, errors, runErrorSet>>

\* processTripAdvisorImport has returned: executeJob writes status completed
\* to the job's row, records the metric and returns
executeJobCompletes ==
  /\ UNCHANGED otherThanImp
  /\ UNCHANGED runVars
  /\ phasePc = "returned"
  /\ queueJob' = [queueJob EXCEPT !.status = "completed"]
  /\ phasePc' = "executeJobReturned"
  /\ UNCHANGED ipVarsButPc
  /\ UNCHANGED <<lastReviewDate, allReviews, reviewsToImport, upserted, full_history,
                 batchSize, created, taPoll, batchAt, importedCount, skipped, errors, runErrorSet>>

\* a catch block that raises the error again without writing to the row
executeJobFailsMutant ==
  /\ UNCHANGED otherThanImp
  /\ UNCHANGED runVars
  /\ phasePc \in {"thrown", "default"}
  /\ queueJob' = queueJob
  /\ phasePc' = "executeJobThrown"
  /\ UNCHANGED ipVarsButPc
  /\ UNCHANGED <<lastReviewDate, allReviews, reviewsToImport, upserted, full_history,
                 batchSize, created, taPoll, batchAt, importedCount, skipped, errors, runErrorSet>>

\* processTripAdvisorImport has raised, or the default branch has raised the
\* unsupported-type error: the catch block of executeJob writes status failed
\* and the error message to the job's row, records the metric and raises the
\* error again
executeJobFails ==
  /\ UNCHANGED otherThanImp
  /\ UNCHANGED runVars
  /\ phasePc \in {"thrown", "default"}
  /\ queueJob' = [queueJob EXCEPT !.status = "failed", !.error_message = TRUE]
  /\ phasePc' = "executeJobThrown"
  /\ UNCHANGED ipVarsButPc
  /\ UNCHANGED <<lastReviewDate, allReviews, reviewsToImport, upserted, full_history,
                 batchSize, created, taPoll, batchAt, importedCount, skipped, errors, runErrorSet>>

\* the promise of executeJob has settled: the catch handler of processJob
\* logs a rejection and its finally handler deletes the Map entry
processJobSettles ==
  /\ phasePc \in {"executeJobReturned", "executeJobThrown"}
  /\ JobFinishes(1)

\* validateTripAdvisorPayload returns or raises
TAValidate ==
  /\ UNCHANGED otherThanImp
  /\ UNCHANGED runVars
  /\ UNCHANGED impVars
  /\ phasePc = "validate"
  /\ phasePc' = IF validateTripAdvisorPayload(queueJob.payload)
                 THEN "createReviewSyncJob" ELSE "catch"
  /\ UNCHANGED ipVarsButPc

\* createReviewSyncJob reads the last review date of an incremental import
\* and inserts the run, or raises
TACreateReviewSyncJob(ok, last) ==
  /\ UNCHANGED otherThanImp
  /\ phasePc = "createReviewSyncJob"
  /\ full_history => last = 0
  /\ IF ok
     THEN /\ runStatus' = InsertedStatus(pollCaller)
          /\ runProgress' = InsertedProgress(pollCaller)
          /\ lastReviewDate' = last
          /\ phasePc' = "createTask"
     ELSE /\ last = 0
          /\ phasePc' = "catch"
          /\ UNCHANGED <<runStatus, runProgress, lastReviewDate>>
  /\ UNCHANGED <<runImported, runSkipped, runErrors, runTotal>>
  /\ UNCHANGED <<pollCaller, pPc, pAttempt, pFetches, pFailedSeen, pNonTerminalOnly,
                 pResult, pError, immediates, phase2Started>>
  /\ UNCHANGED <<allReviews, reviewsToImport, upserted, full_history, batchSize, created, taPoll,
                 batchAt, importedCount, skipped, errors, queueJob, runErrorSet>>

\* extractTripAdvisorPath and updateProgress(10)
TAExtractUrl(ok) ==
  /\ UNCHANGED otherThanImp
  /\ UNCHANGED impVars
  /\ phasePc = "createTask"
  /\ runProgress' = IF ok THEN Pct(10) ELSE runProgress
  /\ phasePc' = IF ok THEN "firstTask" ELSE "catch"
  /\ UNCHANGED <<runImported, runSkipped, runErrors, runTotal>>
  /\ UNCHANGED ipVarsButPc

\* the request that creates the first task (the count task of a full
\* history import, the task of depth 20 otherwise) is answered, or fails on
\* every attempt
TAFirstTask(ok, response) ==
  /\ UNCHANGED otherThanImp
  /\ UNCHANGED runVars
  /\ phasePc = "firstTask"
  /\ created' = IF ok THEN response ELSE created
  /\ phasePc' = IF ok THEN "firstTaskAnswered" ELSE "catch"
  /\ UNCHANGED ipVarsButPc
  /\ UNCHANGED <<lastReviewDate, allReviews, reviewsToImport, upserted, full_history,
                 batchSize, taPoll, batchAt, importedCount, skipped, errors, queueJob,
                 runErrorSet>>

\* createDataForSEOTask returns the id of the answer's first task, progress
\* 20 or 30 is written and pollForResults is called; or the answer holds no
\* task and reading it raises
TAFirstTaskCreated ==
  /\ UNCHANGED otherThanImp
  /\ phasePc = "firstTaskAnswered"
  /\ created' = NoCreation
  /\ IF createDataForSEOTask(created)
     THEN /\ runProgress' = IF full_history THEN Pct(20) ELSE Pct(30)
          /\ taPoll' = IF full_history THEN "count" ELSE "reviews"
          /\ phasePc' = "pollForResults"
          /\ PollCalled
     ELSE /\ phasePc' = "catch"
          /\ UNCHANGED <<runProgress, taPoll, pPc, pAttempt, pFetches, pFailedSeen,
                         pNonTerminalOnly, pResult, pError>>
  /\ UNCHANGED <<runImported, runSkipped, runErrors, runTotal>>
  /\ UNCHANGED <<pollCaller, runStatus, immediates, phase2Started>>
  /\ UNCHANGED <<lastReviewDate, allReviews, reviewsToImport, upserted, full_history,
                 batchSize, batchAt, importedCount, skipped, errors, queueJob, runErrorSet>>

\* the count is read and written as total_available; above 10 the request
\* that creates the task for all reviews is answered (or fails on every
\* attempt); otherwise the count data is used
TACountRead(ok, response) ==
  /\ UNCHANGED otherThanImp
  /\ phasePc = "afterPoll"
  /\ taPoll = "count"
  /\ runTotal' = totalAvailable
  /\ IF totalAvailable > 10
     THEN IF ok
          THEN /\ created' = response
               /\ phasePc' = "secondTaskAnswered"
               /\ PollResultKept
               /\ UNCHANGED taPoll
          ELSE /\ phasePc' = "catch"
               /\ taPoll' = "none"
               /\ PollOver
               /\ UNCHANGED created
     ELSE /\ ok
          /\ taPoll' = "reviews"
          /\ phasePc' = "afterPoll"
          /\ PollResultKept
          /\ UNCHANGED created
  /\ UNCHANGED <<runImported, runSkipped, runErrors, runProgress>>
  /\ UNCHANGED <<pollCaller, runStatus, immediates, phase2Started>>
  /\ UNCHANGED <<lastReviewDate, allReviews, reviewsToImport, upserted, full_history,
                 batchSize, batchAt, importedCount, skipped, errors, queueJob, runErrorSet>>

\* createDataForSEOTask returns the id of the second task, progress 40 is
\* written and pollForResults is called again; or the answer holds no task
TASecondTaskCreated ==
  /\ UNCHANGED otherThanImp
  /\ phasePc = "secondTaskAnswered"
  /\ created' = NoCreation
  /\ IF createDataForSEOTask(created)
     THEN /\ runProgress' = Pct(40)
          /\ taPoll' = "reviews"
          /\ phasePc' = "pollForResults"
          /\ PollCalled
     ELSE /\ phasePc' = "catch"
          /\ taPoll' = "none"
          /\ PollOver
          /\ UNCHANGED runProgress
  /\ UNCHANGED <<runImported, runSkipped, runErrors, runTotal>>
  /\ UNCHANGED <<pollCaller, runStatus, immediates, phase2Started>>
  /\ UNCHANGED <<lastReviewDate, allReviews, reviewsToImport, upserted, full_history,
                 batchSize, batchAt, importedCount, skipped, errors, queueJob, runErrorSet>>

\* updateProgress(60) and the head of importReviews: total_available is
\* written, the reviews are filtered when a last review date is known, and
\* with nothing new importReviews returns 0
TAImportBegins ==
  /\ UNCHANGED otherThanImp
  /\ phasePc = "afterPoll"
  /\ taPoll = "reviews"
  /\ runProgress' = Pct(60)
  /\ runTotal' = totalAvailable
  /\ \E items \in ReviewLists(pResult.items) :
       /\ allReviews' = items
       /\ reviewsToImport' = NewReviews(items, lastReviewDate)
  /\ phasePc' = IF lastReviewDate # 0 /\ Len(reviewsToImport') = 0
                THEN "completeJob" ELSE "batchLoop"
  /\ taPoll' = "none"
  /\ PollResultKept
  /\ UNCHANGED <<runImported, runSkipped, runErrors>>
  /\ UNCHANGED <<pollCaller, runStatus, immediates, phase2Started>>
  /\ UNCHANGED <<lastReviewDate, upserted, full_history, batchSize, created, batchAt,
                 importedCount, skipped, errors, queueJob, runErrorSet>>

\* one batch: the upsert returns a count, or no count, or fails; the
\* progress and the three counters are written
TABatch(ok, count) ==
  /\ UNCHANGED otherThanImp
  /\ phasePc = "batchLoop"
  /\ batchAt < Len(reviewsToImport)
  /\ count \in 0..Len(batch)
  /\ IF ok
     THEN LET batchImported == IF count # 0 THEN count ELSE Len(batch)
          IN /\ importedCount' = importedCount + batchImported
             /\ skipped' = skipped + (Len(batch) - batchImported)
             /\ errors' = errors
             /\ upserted' = upserted \o batch
     ELSE /\ count = 0
          /\ errors' = errors + Len(batch)
          /\ UNCHANGED <<importedCount, skipped, upserted>>
  /\ runProgress' = Min(batchProgress, Pct(100))
  /\ runImported' = importedCount'
  /\ runSkipped' = skipped'
  /\ runErrors' = errors'
  /\ batchAt' = batchAt + batchSize
  /\ UNCHANGED runTotal
  /\ UNCHANGED ipVars
  /\ UNCHANGED <<lastReviewDate, allReviews, reviewsToImport, full_history, batchSize, created,
                 taPoll, queueJob, runErrorSet>>

\* importReviews has returned: completeJob writes the status, progress 100,
\* the count and the number of items as total_available
completeJob ==
  /\ UNCHANGED otherThanImp
  /\ UNCHANGED impVars
  /\ \/ phasePc = "completeJob"
     \/ phasePc = "batchLoop" /\ ~(batchAt < Len(reviewsToImport))
  /\ runStatus' = "succeeded"
  /\ runProgress' = Pct(100)
  /\ runImported' = importedCount
  /\ runTotal' = pResult.items
  /\ phasePc' = "returned"
  /\ UNCHANGED <<runSkipped, runErrors>>
  /\ UNCHANGED <<pollCaller, pPc, pAttempt, pFetches, pFailedSeen, pNonTerminalOnly,
                 pResult, pError, immediates, phase2Started>>

NextImport ==
  \/ executeJob
  \/ TAValidate
  \/ \E ok \in BOOLEAN, last \in Stamps : TACreateReviewSyncJob(ok, last)
  \/ \E ok \in BOOLEAN : TAExtractUrl(ok)
  \/ \E ok \in BOOLEAN, response \in CreationResponses : TAFirstTask(ok, response)
  \/ TAFirstTaskCreated
  \/ PollDelayElapsed
  \/ \E r \in Phase3Responses : PollResponse(r)
  \/ \E ok \in BOOLEAN, response \in CreationResponses : TACountRead(ok, response)
  \/ TASecondTaskCreated
  \/ TAImportBegins
  \/ \E ok \in BOOLEAN, count \in 0..MaxReviews : TABatch(ok, count)
  \/ completeJob
  \/ failJob
  \/ executeJobCompletes
  \/ executeJobFails
  \/ processJobSettles

(***************************************************************************)
(* importReviews of both processors over the reviews table: the upsert on  *)
(* (source, external_id) and what a pass counts.                           *)
(***************************************************************************)
\* review.review_id of a review: 0 when it is missing
ReviewIds == 0..MaxIds

\* the reviews one pass is given: one review, or a few
PassReviews == UNION {[1..n -> ReviewIds] : n \in 1..MaxReviews}

\* external_id: review.review_id || `tripadvisor_${Date.now()}_${Math.random()}`,
\* the k-th review of the pass taking the next made-up id when it has none
RECURSIVE Missing(_, _)
Missing(reviews, k) ==
  IF k = 0 THEN 0
  ELSE Missing(reviews, k - 1) + (IF reviews[k] = 0 THEN 1 ELSE 0)

external_id(reviews, k) ==
  IF reviews[k] # 0
  THEN [given |-> TRUE, id |-> reviews[k]]
  ELSE [given |-> FALSE, id |-> generated + Missing(reviews, k)]

\* the rows of reviewRecords, by their conflict key
reviewRecords(reviews) ==
  {[source |-> "tripadvisor", external_id |-> external_id(reviews, k)] :
     k \in 1..Len(reviews)}

\* upsert(reviewRecords, { onConflict: 'source,external_id' }): a row whose
\* key is in the table is merged into the row that is there
Upsert(table, reviews) == table \cup reviewRecords(reviews)

\* the count an upsert with count: 'exact' can report: the rows it wrote
\* (inserted or merged), or the rows it inserted, or none
UpsertCounts(table, reviews) ==
  {Len(reviews), Cardinality(reviewRecords(reviews) \ table), 0}

\* JobProcessor: const batchImported = count || batch.length
\* ScalableJobProcessor: const imported = count || 0
imported(processor, reviews, count) ==
  IF processor = "JobProcessor"
  THEN IF count # 0 THEN count ELSE Len(reviews)
  ELSE count

\* JobProcessor: skipped += batch.length - batchImported
\* ScalableJobProcessor counts no skipped review
skippedBy(processor, reviews, count) ==
  IF processor = "JobProcessor"
  THEN Len(reviews) - imported(processor, reviews, count)
  ELSE 0

InitPasses ==
  /\ upProcessor \in Processors
  /\ stored = {}
  /\ generated = 0
  /\ passes = <<>>

\* one pass of importReviews over a batch of reviews, the upsert succeeding
ImportPass(reviews, count) ==
  /\ UNCHANGED otherThanUp
  /\ Len(passes) < MaxPasses
  /\ count \in UpsertCounts(stored, reviews)
  /\ stored' = Upsert(stored, reviews)
  /\ generated' = generated + Missing(reviews, Len(reviews))
  /\ passes' = Append(passes, [reviews |-> reviews,
                               imported |-> imported(upProcessor, reviews, count),
                               skipped |-> skippedBy(upProcessor, reviews, count)])
  /\ UNCHANGED upProcessor

NextPasses ==
  \E reviews \in PassReviews, count \in 0..MaxReviews : ImportPass(reviews, count)

(***************************************************************************)
(* JobProcessor.processTripAdvisorImport executed more than once for the   *)
(* same queue job: each execution inserts a run of its own, with the       *)
(* job's id as queue_job_id. The payload is valid.                         *)
(***************************************************************************)
\* the executions of the job: it is claimed once more whenever
\* release_expired_claims has made it claimable, as in ReleaseExpiredClaims
ImportIds == 1..MaxExecutions

NoRun == [queue_job_id |-> 0, status |-> "none", progress |-> FALSE]

\* the id of the one queue job
TheJob == 1

\* no execution, no run
RestRs ==
  /\ job_queue = "pending"
  /\ imports = [e \in ImportIds |-> "none"]
  /\ review_sync_jobs = [e \in ImportIds |-> NoRun]

\* the rows an update with .eq('id', syncJobId) writes: the run of execution e
EqId(e) == {r \in ImportIds : r = e /\ review_sync_jobs[r] # NoRun}

\* the rows an update with .eq('queue_job_id', jobId) writes
EqQueueJobId(e, jobId) ==
  {r \in ImportIds : review_sync_jobs[r].queue_job_id = jobId}

\* claim_next_job hands the job out and processJob starts execution e
RsDispatch(e) ==
  /\ UNCHANGED otherThanRs
  /\ job_queue = "pending"
  /\ imports[e] = "none"
  /\ \A f \in ImportIds : f < e => imports[f] # "none"
  /\ job_queue' = "claimed"
  /\ imports' = [imports EXCEPT ![e] = "createReviewSyncJob"]
  /\ UNCHANGED review_sync_jobs

\* release_expired_claims: the lease has run out while the job is executed
RsReleaseExpiredClaims ==
  /\ UNCHANGED otherThanRs
  /\ job_queue = "claimed"
  /\ job_queue' = "pending"
  /\ UNCHANGED <<imports, review_sync_jobs>>

\* createReviewSyncJob inserts the run of execution e, or raises
RsCreateReviewSyncJob(e, ok) ==
  /\ UNCHANGED otherThanRs
  /\ imports[e] = "createReviewSyncJob"
  /\ imports' = [imports EXCEPT ![e] = IF ok THEN "updateProgress" ELSE "catch"]
  /\ review_sync_jobs' =
       IF ok
       THEN [review_sync_jobs EXCEPT ![e] =
               [queue_job_id |-> TheJob, status |-> "processing", progress |-> FALSE]]
       ELSE review_sync_jobs
  /\ UNCHANGED job_queue

\* the tasks, the polls and the import of execution e: progress is written
\* to the run with .eq('id', syncJobId), or an error is raised
RsUpdateProgress(e, ok) ==
  /\ UNCHANGED otherThanRs
  /\ imports[e] = "updateProgress"
  /\ imports' = [imports EXCEPT ![e] = IF ok THEN "completeJob" ELSE "catch"]
  /\ review_sync_jobs' =
       [r \in ImportIds |->
          IF r \in EqId(e) THEN [review_sync_jobs[r] EXCEPT !.progress = TRUE]
          ELSE review_sync_jobs[r]]
  /\ UNCHANGED job_queue

\* completeJob writes succeeded to the run of execution e; executeJob
\* writes completed to the job's row
RsCompleteJob(e) ==
  /\ UNCHANGED otherThanRs
  /\ imports[e] = "completeJob"
  /\ imports' = [imports EXCEPT ![e] = "returned"]
  /\ review_sync_jobs' =
       [r \in ImportIds |->
          IF r \in EqId(e) THEN [review_sync_jobs[r] EXCEPT !.status = "succeeded"]
          ELSE review_sync_jobs[r]]
  /\ job_queue' = "finished"

\* the catch block of execution e: failJob(jobId) writes failed to the
\* job's row and to the runs its filter selects, and the error is rethrown
RsFailJob(e) ==
  /\ UNCHANGED otherThanRs
  /\ imports[e] = "catch"
  /\ imports' = [imports EXCEPT ![e] = "thrown"]
  /\ review_sync_jobs' =
       [r \in ImportIds |->
          IF r \in EqQueueJobId(e, TheJob)
          THEN [review_sync_jobs[r] EXCEPT !.status = "failed"]
          ELSE review_sync_jobs[r]]
  /\ job_queue' = "finished"

NextRuns ==
  \/ \E e \in ImportIds : RsDispatch(e)
  \/ RsReleaseExpiredClaims
  \/ \E e \in ImportIds, ok \in BOOLEAN : RsCreateReviewSyncJob(e, ok)
  \/ \E e \in ImportIds, ok \in BOOLEAN : RsUpdateProgress(e, ok)
  \/ \E e \in ImportIds : RsCompleteJob(e)
  \/ \E e \in ImportIds : RsFailJob(e)

(***************************************************************************)
(* EnhancedJobAPI.triggerEnhancedSync for one user with a configured       *)
(* integration: getRunningSync, createEnhancedSyncJob, and the worker      *)
(* (JobProcessor.processTripAdvisorImport) processing the queued jobs.     *)
(***************************************************************************)
RequestIds == 1..MaxRequests

RestApi ==
  /\ apiRequests = [r \in RequestIds |-> "idle"]
  /\ apiSync = [r \in RequestIds |-> "none"]
  /\ apiJobs = [r \in RequestIds |-> "none"]
  /\ apiRuns = [r \in RequestIds |-> "none"]

\* the query of getRunningSync: a row of the user .in('status', ['pending',
\* 'running'])
RunningSync ==
  \E r \in RequestIds :
    \/ apiSync[r] \in {"pending", "running"}
    \/ apiRuns[r] \in {"pending", "running"}

\* getRunningSync answers request r: with a row, 409; with none, or with a
\* query error (caught, null returned), the request goes on
ApiGetRunningSync(r, ok) ==
  /\ UNCHANGED otherThanApi
  /\ apiRequests[r] = "idle"
  /\ \A q \in RequestIds : q < r => apiRequests[q] # "idle"
  /\ apiRequests' = [apiRequests EXCEPT ![r] =
                       IF ok /\ RunningSync THEN "409" ELSE "createEnhancedSyncJob"]
  /\ UNCHANGED <<apiSync, apiJobs, apiRuns>>

\* createEnhancedSyncJob inserts the review_sync_jobs row with status
\* pending, or the insert fails and the request ends with 500
ApiInsertSyncJob(r, ok) ==
  /\ UNCHANGED otherThanApi
  /\ apiRequests[r] = "createEnhancedSyncJob"
  /\ apiRequests' = [apiRequests EXCEPT ![r] = IF ok THEN "insertQueueJob" ELSE "500"]
  /\ apiSync' = [apiSync EXCEPT ![r] = IF ok THEN "pending" ELSE @]
  /\ UNCHANGED <<apiJobs, apiRuns>>

\* createEnhancedSyncJob inserts the job_queue row and links the sync row
\* to it, or the insert fails and the request ends with 500
ApiInsertQueueJob(r, ok) ==
  /\ UNCHANGED otherThanApi
  /\ apiRequests[r] = "insertQueueJob"
  /\ apiRequests' = [apiRequests EXCEPT ![r] = IF ok THEN "200" ELSE "500"]
  /\ apiJobs' = [apiJobs EXCEPT ![r] = IF ok THEN "pending" ELSE @]
  /\ UNCHANGED <<apiSync, apiRuns>>

\* the worker claims the job of request r: executeJob writes processing and
\* createReviewSyncJob inserts a run of its own with the job's id
ApiJobStarts(r) ==
  /\ UNCHANGED otherThanApi
  /\ apiJobs[r] = "pending"
  /\ apiJobs' = [apiJobs EXCEPT ![r] = "processing"]
  /\ apiRuns' = [apiRuns EXCEPT ![r] = InsertedStatus("JobProcessor")]
  /\ UNCHANGED <<apiRequests, apiSync>>

\* the import ends: completeJob writes succeeded to the run it inserted
\* and executeJob writes completed to the job
ApiJobCompletes(r) ==
  /\ UNCHANGED otherThanApi
  /\ apiJobs[r] = "processing"
  /\ apiJobs' = [apiJobs EXCEPT ![r] = "completed"]
  /\ apiRuns' = [apiRuns EXCEPT ![r] = "succeeded"]
  /\ UNCHANGED <<apiRequests, apiSync>>

\* the import raises: failJob writes failed to the job and to every row
\* with the job's id as queue_job_id
ApiJobFails(r) ==
  /\ UNCHANGED otherThanApi
  /\ apiJobs[r] = "processing"
  /\ apiJobs' = [apiJobs EXCEPT ![r] = "failed"]
  /\ apiRuns' = [apiRuns EXCEPT ![r] = "failed"]
  /\ apiSync' = [apiSync EXCEPT ![r] = "failed"]
  /\ UNCHANGED apiRequests

NextApi ==
  \/ \E r \in RequestIds, ok \in BOOLEAN : ApiGetRunningSync(r, ok)
  \/ \E r \in RequestIds, ok \in BOOLEAN : ApiInsertSyncJob(r, ok)
  \/ \E r \in RequestIds, ok \in BOOLEAN : ApiInsertQueueJob(r, ok)
  \/ \E r \in RequestIds : ApiJobStarts(r)
  \/ \E r \in RequestIds : ApiJobCompletes(r)
  \/ \E r \in RequestIds : ApiJobFails(r)

(***************************************************************************)
(* MetricsCollector: recordMetrics and flushMetrics, called by the flush   *)
(* timer, by stop() and by recordMetrics itself.                           *)
(***************************************************************************)
MetricIds == 1..MaxMetrics

FlushIds == 1..MaxFlushes

\* if (this.metricsBuffer.length > 100)
FlushAbove == 100

NoFlush == [pc |-> "idle", metricsToFlush |-> <<>>]

RestMc ==
  /\ metricsBuffer = <<>>
  /\ mcRecorded = 0
  /\ mcFlushes = [f \in FlushIds |-> NoFlush]
  /\ system_metrics = [m \in MetricIds |-> 0]

\* the metrics mcRecorded + 1 .. mcRecorded + k
NewMetrics(k) == [i \in 1..k |-> mcRecorded + i]

\* flushMetrics up to its await: nothing with an empty buffer; otherwise the
\* buffer is copied and emptied and the insert is sent
FlushStarted(f, buffer) ==
  IF buffer = <<>>
  THEN /\ metricsBuffer' = buffer
       /\ mcFlushes' = mcFlushes
  ELSE /\ metricsBuffer' = <<>>
       /\ mcFlushes' = [mcFlushes EXCEPT ![f] =
                          [pc |-> "awaitInsert", metricsToFlush |-> buffer]]

\* recordMetrics(metrics) with k metrics: push, and flushMetrics when the
\* buffer holds more than 100
recordMetrics(k, f) ==
  /\ UNCHANGED otherThanMc
  /\ mcRecorded + k <= MaxMetrics
  /\ mcRecorded' = mcRecorded + k
  /\ LET pushed == metricsBuffer \o NewMetrics(k)
     IN IF Len(pushed) > FlushAbove /\ mcFlushes[f].pc = "idle"
        THEN FlushStarted(f, pushed)
        ELSE metricsBuffer' = pushed /\ mcFlushes' = mcFlushes
  /\ UNCHANGED system_metrics

\* the flush timer fires, or stop() runs: flushMetrics is called
flushMetrics(f) ==
  /\ UNCHANGED otherThanMc
  /\ mcFlushes[f].pc = "idle"
  /\ \A g \in FlushIds : g < f => mcFlushes[g].pc # "idle"
  /\ metricsBuffer # <<>>
  /\ FlushStarted(f, metricsBuffer)
  /\ UNCHANGED <<mcRecorded, system_metrics>>

\* the insert of flush f is answered without error: its rows are in the table
FlushInserted(f) ==
  /\ UNCHANGED otherThanMc
  /\ mcFlushes[f].pc = "awaitInsert"
  /\ system_metrics' =
       [m \in MetricIds |->
          system_metrics[m]
            + Cardinality({i \in DOMAIN mcFlushes[f].metricsToFlush :
                             mcFlushes[f].metricsToFlush[i] = m})]
  /\ mcFlushes' = [mcFlushes EXCEPT ![f] = NoFlush]
  /\ UNCHANGED <<metricsBuffer, mcRecorded>>

\* a failed flush that puts its batch behind what the buffer holds
FlushFailsMutant(f) ==
  /\ UNCHANGED otherThanMc
  /\ mcFlushes[f].pc = "awaitInsert"
  /\ metricsBuffer' = metricsBuffer \o mcFlushes[f].metricsToFlush
  /\ mcFlushes' = [mcFlushes EXCEPT ![f] = NoFlush]
  /\ UNCHANGED <<mcRecorded, system_metrics>>

\* the insert of flush f is answered with an error, or rejects: no row is
\* written and this.metricsBuffer.unshift(...metricsToFlush)
FlushFails(f) ==
  /\ UNCHANGED otherThanMc
  /\ mcFlushes[f].pc = "awaitInsert"
  /\ metricsBuffer' = mcFlushes[f].metricsToFlush \o metricsBuffer
  /\ mcFlushes' = [mcFlushes EXCEPT ![f] = NoFlush]
  /\ UNCHANGED <<mcRecorded, system_metrics>>

NextMc ==
  \/ \E k \in 1..2, f \in FlushIds : recordMetrics(k, f)
  \/ \E f \in FlushIds : flushMetrics(f)
  \/ \E f \in FlushIds : FlushInserted(f)
  \/ \E f \in FlushIds : FlushFails(f)

(***************************************************************************)
(* The specifications: one per component, the others at rest.              *)
(***************************************************************************)
InitSpecRetry == InitRetry /\ RestCB /\ RestWM /\ RestIP /\ RestRun /\ RestP2 /\ RestImp /\ RestUp /\ RestRs /\ RestHb /\ RestApi /\ RestMc

SpecRetry == InitSpecRetry /\ [][NextRetry]_vars

InitSpecCB == InitCB /\ RestRetry /\ RestWM /\ RestIP /\ RestRun /\ RestP2 /\ RestImp /\ RestUp /\ RestRs /\ RestHb /\ RestApi /\ RestMc

InitSpecWM == InitWM /\ RestRetry /\ RestCB /\ RestIP /\ RestRun /\ RestP2 /\ RestImp /\ RestUp /\ RestRs /\ RestHb /\ RestApi /\ RestMc

SpecWM == InitSpecWM /\ [][NextWM]_vars

\* the polling cycles of a worker while stop() is not called
InitSpecWMCycles ==
  InitWM /\ RestRetry /\ RestCB /\ RestIP /\ RestRun /\ RestP2 /\ RestImp /\ RestUp /\ RestRs /\ RestHb /\ RestApi /\ RestMc

SpecWMCycles == InitSpecWMCycles /\ [][NextWMCycles]_vars

SpecCB == InitSpecCB /\ [][NextCB]_vars

InitSpecCBTimed ==
  InitCB /\ RestRetry /\ RestWM /\ RestIP /\ RestRun /\ RestP2 /\ RestImp /\ RestUp /\ RestRs /\ RestHb /\ RestApi /\ RestMc

SpecCBTimed == InitSpecCBTimed /\ [][NextCBTimed]_vars

InitSpecPoll == InitPoll /\ RestRetry /\ RestCB /\ RestWM /\ RestP2 /\ RestImp /\ RestUp /\ RestRs /\ RestHb /\ RestApi /\ RestMc

\* every timer fires and every awaited call settles
SpecPoll == InitSpecPoll /\ [][NextPoll]_vars /\ WF_vars(NextPoll)

InitSpecPhase1 == InitPhase1 /\ RestRun /\ RestRetry /\ RestCB /\ RestWM /\ RestP2 /\ RestImp /\ RestUp /\ RestRs /\ RestHb /\ RestApi /\ RestMc

SpecPhase1 == InitSpecPhase1 /\ [][NextPhase1]_vars /\ WF_vars(NextPhase1)

\* processPhase1 when a write of progress or metadata can fail
InitSpecPhase1Writes ==
  InitPhase1 /\ RestRun /\ RestRetry /\ RestCB /\ RestWM /\ RestP2 /\ RestImp /\ RestUp /\ RestRs /\ RestHb /\ RestApi /\ RestMc

SpecPhase1Writes == InitSpecPhase1Writes /\ [][NextPhase1Writes]_vars

InitSpecPhase2 == InitPhase2 /\ RestRetry /\ RestCB /\ RestWM /\ RestImp /\ RestUp /\ RestRs /\ RestHb /\ RestApi /\ RestMc

SpecPhase2 == InitSpecPhase2 /\ [][NextPhase2]_vars

InitSpecPhase3 == InitPhase3 /\ RestRun /\ RestImp /\ RestRetry /\ RestCB /\ RestWM /\ RestP2 /\ RestUp /\ RestRs /\ RestHb /\ RestApi /\ RestMc

SpecPhase3 == InitSpecPhase3 /\ [][NextPhase3]_vars

InitSpecImport == InitImport /\ RestRun /\ RestRetry /\ RestCB /\ DispatchedWM /\ RestP2 /\ RestUp /\ RestRs /\ RestHb /\ RestApi /\ RestMc

SpecImport == InitSpecImport /\ [][NextImport]_vars

InitSpecPasses ==
  InitPasses /\ RestRetry /\ RestCB /\ RestWM /\ RestIP /\ RestRun /\ RestP2 /\ RestImp /\ RestRs /\ RestHb /\ RestApi /\ RestMc

SpecPasses == InitSpecPasses /\ [][NextPasses]_vars

(***************************************************************************)

InitSpecRuns ==
  RestRs /\ RestRetry /\ RestCB /\ RestWM /\ RestIP /\ RestRun /\ RestP2 /\ RestImp /\ RestUp /\ RestHb /\ RestApi /\ RestMc

SpecRuns == InitSpecRuns /\ [][NextRuns]_vars

InitSpecWMHeartbeat ==
  InitWM /\ RestHb /\ RestRetry /\ RestCB /\ RestIP /\ RestRun /\ RestP2 /\ RestImp /\ RestUp /\ RestRs /\ RestApi /\ RestMc

SpecWMHeartbeat == InitSpecWMHeartbeat /\ [][NextWMHeartbeat]_vars

InitSpecApi ==
  RestApi /\ RestHb /\ RestRetry /\ RestCB /\ RestWM /\ RestIP /\ RestRun /\ RestP2 /\ RestImp /\ RestUp /\ RestRs /\ RestMc

SpecApi == InitSpecApi /\ [][NextApi]_vars

InitSpecMc ==
  RestMc /\ RestApi /\ RestHb /\ RestRetry /\ RestCB /\ RestWM /\ RestIP /\ RestRun /\ RestP2 /\ RestImp /\ RestUp /\ RestRs

SpecMc == InitSpecMc /\ [][NextMc]_vars

(***************************************************************************)
(* The claims about executeWithRetry and the retry profiles.               *)
(***************************************************************************)
RetryDone == rPc \in {"returned", "thrown"}

\* a status of the server-error class (5xx) or the rate-limit status
ServerOrRateLimit(e) == e.status >= 500 \/ e.status = 429

(***************************************************************************)
(* C6: executeWithRetry calls the operation at most maxAttempts times; a   *)
(* delay is only ever waited after a failed attempt that is not the last   *)
(* and whose error retryCondition accepts; otherwise the attempt's own     *)
(* error is raised at once, with no delay after the last call.             *)
(***************************************************************************)
C6_RetryBounded ==
  /\ rInvocations <= rMaxAttempts
  /\ rPc = "delay" => retryCondition(rOpError) /\ rAttempt < rMaxAttempts
  /\ (rPc = "thrown" /\ rInvocations > 0) =>
        /\ rRaised = rOpError
        /\ rDelays = rInvocations - 1
        /\ rInvocations = rMaxAttempts \/ ~retryCondition(rOpError)

\* an error the predicate rejects ends the run on the second of three attempts
C6_Witness ==
  /\ rPc = "thrown"
  /\ rInvocations = 2
  /\ rInvocations < rMaxAttempts
  /\ rDelays = 1
  /\ ~retryCondition(rRaised)

CallStarts(c, n) ==
  /\ cbCalls[c].pc = "idle"
  /\ cbCalls'[c].pc # "idle"
  /\ cbCalls'[c].name = n

\* call c fails in this step with the error of its operation
OperationFailed(n) == cbConsecutive'[n] > cbConsecutive[n]

C3_SingleProbe ==
  \A n \in DOMAIN circuitBreakers :
    circuitBreakers[n].state = "half-open" =>
      Cardinality({c \in CallIds : /\ cbCalls[c].name = n
                                   /\ cbCalls[c].pc = "awaitOperation"
                                   /\ cbCalls[c].probe}) <= 1

(***************************************************************************)
(* C1 as stated: the entries of currentJobs, the jobs dispatched and not   *)
(* yet finished, never number more than maxConcurrentJobs, also when a     *)
(* polling tick fires while an earlier pollForJobs awaits a claim.         *)
(***************************************************************************)
C1_WithinMaxConcurrentJobs == Size <= maxConcurrentJobs

(***************************************************************************)
(* C4 as stated: once stop() has been called the worker makes no further   *)
(* claim_next_job call and dispatches no further job, a pollForJobs cycle  *)
(* that was awaiting a claim when stop() was called included.              *)
(***************************************************************************)
C4_NothingAfterStop == ~wmAfterStop.claims /\ ~wmAfterStop.dispatches

(***************************************************************************)
(* C5 as stated: at the moment stop() writes status offline, either no job *)
(* of this worker is still executing or the 60 second drain timeout has    *)
(* elapsed since the drain began.                                          *)
(***************************************************************************)
C5_OfflineAfterDrain ==
  wmOffline.written => (wmOffline.executing = 0 \/ wmOffline.timedOut)

(***************************************************************************)
(* The claims about pollForResults.                                        *)
(***************************************************************************)
PollDone == pPc \in {"returned", "thrown"}

(***************************************************************************)
(* C8: pollForResults ends for every sequence of responses and never makes *)
(* more than 60 fetches; when no fetch has brought a terminal status       *)
(* within the 60 attempts it ends with the timeout error, and the run is   *)
(* then marked failed.                                                     *)
(***************************************************************************)
C8_PollTerminates ==
  /\ [](pFetches <= maxAttempts)
  /\ []((PollDone /\ pNonTerminalOnly) => (pPc = "thrown" /\ pError = "timeout"))
  /\ <>PollDone
  /\ (pError = "timeout") ~> (runStatus = "failed")

\* sixty fetches, none with a terminal status: the timeout error, run failed
C8_Witness ==
  /\ pNonTerminalOnly
  /\ pFetches = maxAttempts
  /\ pError = "timeout"
  /\ runStatus = "failed"

(***************************************************************************)
(* C9 as stated: when a fetch reports a failed task, pollForResults stops  *)
(* at that attempt with the task-failed error; no further fetch is made.   *)
(***************************************************************************)
C9_StopsAtFailedTask ==
  pFailedSeen => (pPc = "thrown" /\ pError = "taskFailed")

(***************************************************************************)
(* C10: when processPhase1 comes to its status write and returns, a total  *)
(* of at most 10 leaves the run completed with processPhase2 never queued  *)
(* nor started for it; a total above 10 has processPhase2 queued once and  *)
(* started once; and processPhase2 is never started twice, nor for a total *)
(* of at most 10.                                                          *)
(***************************************************************************)
C10_Phase1Decision ==
  /\ [](immediates + phase2Started <= 1)
  /\ [](immediates + phase2Started > 0 => totalAvailable > SampleSize)
  /\ []((phasePc = "returned" /\ totalAvailable <= SampleSize) =>
          (runStatus = "completed" /\ immediates + phase2Started = 0))
  /\ []((phasePc = "returned" /\ totalAvailable > SampleSize) =>
          immediates + phase2Started = 1)
  /\ (phasePc = "returned" /\ totalAvailable > SampleSize) ~> (phase2Started = 1)

\* a total of 11: Phase 1 has returned and processPhase2 has started once
C10_Witness ==
  /\ phasePc = "returned"
  /\ totalAvailable = SampleSize + 1
  /\ phase2Started = 1
  /\ runStatus = "phase_2_processing"

(***************************************************************************)
(* The claims about processPhase2.                                         *)
(***************************************************************************)
\* where the range of the k-th submitted task ends
RangeEnd(k) == p2Submitted[k].offset + p2Submitted[k].depth

(***************************************************************************)
(* C11: the tasks processPhase2 submits have ranges of 1 to 500 reviews    *)
(* that start at offset 10, follow each other without gap or overlap and   *)
(* stay below the total; a task is submitted only when every earlier chunk *)
(* has been polled to completion and imported; and when processPhase2      *)
(* returns, the ranges end at the total and their number is                *)
(* ceil((T - 10) / 500).                                                   *)
(***************************************************************************)
C11_ChunksInOrder ==
  LET n == Len(p2Submitted)
  IN /\ n <= p2ChunksDone + 1
     /\ \A k \in 1..n : /\ p2Submitted[k].depth >= 1
                        /\ p2Submitted[k].depth <= 500
                        /\ RangeEnd(k) <= totalReviews
     /\ n > 0 => p2Submitted[1].offset = 10
     /\ \A k \in 1..(n - 1) : p2Submitted[k + 1].offset = RangeEnd(k)
     /\ phasePc = "returned" =>
          /\ p2ChunksDone = n
          /\ 500 * n >= totalReviews - 10
          /\ 500 * (n - 1) < totalReviews - 10 \/ n = 0
          /\ n > 0 => RangeEnd(n) = totalReviews

\* 1200 remaining reviews: three chunks of 500, 500 and 200, all done
C11_Witness ==
  /\ phasePc = "returned"
  /\ totalReviews = 1210
  /\ p2Submitted = <<[offset |-> 10, depth |-> 500], [offset |-> 510, depth |-> 500],
                     [offset |-> 1010, depth |-> 200]>>

(***************************************************************************)
(* C12 as stated: when processPhase2 has completed, the run's              *)
(* imported_count is the sum of the counts imported by its chunks plus the *)
(* number of records Phase 1 imported as its sample.                       *)
(***************************************************************************)
C12_CountIncludesSample ==
  (phasePc = "returned" /\ runStatus = "completed") =>
     runImported = p2ImportSum + p2Sample

\* the reviews retrieved whose date is strictly later than the watermark
Qualifying ==
  SelectSeq(allReviews, LAMBDA review : reviewDate(review) > lastReviewDate)

\* the result has been read and filtered
FilterDone == pResult.set /\ pPc = "rest" /\ taPoll = "none"

(***************************************************************************)
(* C13 as stated: with a watermark T, processPhase3 and the incremental    *)
(* path of processTripAdvisorImport hand to the upsert only retrieved      *)
(* reviews dated strictly after T, and all of them when they return with   *)
(* no write error; if no review qualifies, no error is raised, the run is  *)
(* never failed and ends with status completed and imported_count 0.       *)
(***************************************************************************)
C13_OnlyNewerImported ==
  (lastReviewDate # 0 /\ FilterDone) =>
     /\ reviewsToImport = Qualifying
     /\ \A k \in 1..Len(upserted) : reviewDate(upserted[k]) > lastReviewDate
     /\ (phasePc = "returned" /\ errors = 0) => upserted = Qualifying
     /\ Qualifying = <<>> =>
          /\ phasePc \in {"updateSyncJob", "completeJob", "returned"}
          /\ runStatus # "failed"
          /\ phasePc = "returned" => (runStatus = "completed" /\ runImported = 0)

C15_ProgressNeverFalls == [][runProgress' >= runProgress]_vars

(***************************************************************************)
(* C17 as stated: the job ids of the active-jobs registry are at every     *)
(* moment the job ids that have an execution in progress in this worker.   *)
(***************************************************************************)
C17_RegistryIsExecuting ==
  DOMAIN currentJobs = {wmExecutions[e].job : e \in Executing}

(***************************************************************************)
(* C16: once processTripAdvisorImport has raised an error for the job that *)
(* executeJob runs, the run (if one was inserted) has status failed and an *)
(* error message, the job_queue row has status failed and an error         *)
(* message, the worker is still running with its polling timer set; the    *)
(* catch block of the phase always raises the error again to executeJob,   *)
(* which raises it again, and once the execution has settled the job is no *)
(* longer in the Map.                                                      *)
(***************************************************************************)
C16_FailurePropagates ==
  /\ [](phasePc \in {"thrown", "executeJobThrown"} =>
          /\ runStatus # "none" => (runStatus = "failed" /\ runErrorSet)
          /\ queueJob.status = "failed" /\ queueJob.error_message
          /\ isRunning /\ jobPollingInterval)
  /\ []((phasePc = "executeJobThrown" /\ wmExecutions[1].pc = "none") =>
          1 \notin DOMAIN currentJobs)
  /\ [][phasePc = "catch" => phasePc' = "thrown"]_vars
  /\ [][phasePc = "thrown" => phasePc' = "executeJobThrown"]_vars

\* pollForResults timed out, the run and the job are failed, and the
\* execution has settled
C16_Witness ==
  /\ phasePc = "executeJobThrown"
  /\ pError = "timeout"
  /\ runStatus = "failed"
  /\ wmExecutions[1].pc = "none"
  /\ currentJobs = [j \in {} |-> 0]

(***************************************************************************)
(* C18 as stated: when two passes import the same single review (same      *)
(* source, same review_id), the table holds one row for it, and the second *)
(* pass counts it as skipped and not as imported.                          *)
(***************************************************************************)
C18_SecondPassSkips ==
  \A i \in 1..MaxIds :
    (Len(passes) = 2 /\ passes[1].reviews = <<i>> /\ passes[2].reviews = <<i>>) =>
       /\ Cardinality({row \in stored : row.external_id.given /\ row.external_id.id = i}) = 1
       /\ passes[2].skipped = 1
       /\ passes[2].imported = 0

(***************************************************************************)
(* C19 as stated: while a breaker is open, a call for its name that starts *)
(* before recoveryTimeMs has passed since the instant the latest call for  *)
(* that name failed ends with the circuit-open error and does not reach    *)
(* the operation.                                                          *)
(***************************************************************************)
C19_RejectedSinceFailure ==
  [][\A n \in OperationNames, c \in CallIds :
       (/\ CallStarts(c, n)
        /\ Breaker(n).state = "open"
        /\ cbClock - cbFailedAt[n] < cbRecoveryTimeMs) =>
          cbCalls'[c].pc = "rejected"]_vars

\* the probe call c of the half-open breaker of its name ends in this step
ProbeEnds(c) ==
  /\ cbCalls[c].pc = "awaitOperation"
  /\ cbCalls[c].probe
  /\ circuitBreakers[cbCalls[c].name].state = "half-open"
  /\ cbCalls'[c].pc = "done"

(***************************************************************************)
(* C20 as stated: when the probe call of a half-open breaker succeeds, the *)
(* breaker is closed with failures 0; when it fails, the breaker is open   *)
(* again and its recovery timer starts at the instant of the failure, so   *)
(* that calls are rejected for recoveryTimeMs from then on.                *)
(***************************************************************************)
C20_ProbeOutcome ==
  [][\A c \in CallIds :
       ProbeEnds(c) =>
         LET n == cbCalls[c].name
         IN IF OperationFailed(n)
            THEN /\ circuitBreakers'[n].state = "open"
                 /\ circuitBreakers'[n].lastFailure >= cbClock
            ELSE /\ circuitBreakers'[n].state = "closed"
                 /\ circuitBreakers'[n].failures = 0]_vars

(***************************************************************************)
(* C21: when a chunk of processPhase2 fails (its submission, its poll or   *)
(* its import raises), the run ends with status failed and an error        *)
(* message, no task is submitted after the failing chunk's, and the        *)
(* imported_count the earlier chunks wrote stays as it was.                *)
(***************************************************************************)
C21_ChunkFailureKeepsProgress ==
  /\ [](phasePc = "thrown" =>
          /\ runStatus = "failed"
          /\ runErrorSet
          /\ Len(p2Submitted) <= chunk + 1
          /\ runImported >= p2Sample)
  /\ [][(phasePc = "catch" \/ phasePc = "thrown") => UNCHANGED <<p2Submitted, runImported, p2ChunksDone>>]_vars

\* a chunk after the first failed once earlier chunks had written their count,
\* with chunks still to come
C21_Witness ==
  /\ phasePc = "thrown"
  /\ p2ChunksDone >= 1
  /\ chunk = p2ChunksDone
  /\ chunk + 1 < totalChunks
  /\ runImported > 10
  /\ runStatus = "failed"

\* a step in which the write of one batch of records fails: a batch of the
\* loop of JobProcessor.importReviews, or the one upsert of
\* ScalableJobProcessor.importReviews (a chunk, the sample, the new reviews)
WriteFails ==
  \/ phasePc = "batchLoop" /\ batchAt' > batchAt /\ upserted' = upserted
  \/ phasePc = "importReviews" /\ phasePc' = "catch"
  \/ pollCaller = "ScalableJobProcessor" /\ phasePc = "afterPoll" /\ phasePc' = "catch"

\* the number of records in the batch being written
BatchRecords ==
  CASE phasePc = "batchLoop" -> Len(batch)
    [] phasePc = "importReviews" -> Len(reviewsToImport)
    [] OTHER -> pResult.items

(***************************************************************************)
(* C22 as stated: when the write of one batch of records fails, the        *)
(* records of the batch are added to the run's error_count, the import     *)
(* goes on with the batches that remain, and the run is not marked failed  *)
(* on account of that batch.                                               *)
(***************************************************************************)
C22_BatchErrorCounted ==
  [][WriteFails =>
       (runErrors' = runErrors + BatchRecords /\ phasePc' # "catch" /\ runStatus' # "failed")]_vars

\* pollForJobs call p is entered in this step
CycleStarts(p) == ~wmPolls[p].active /\ wmPolls'[p].active

\* the claim call that pollForJobs call p awaits is answered in this step
ClaimAnswered(p) == wmPolls[p].active /\ wmPolls'[p] # wmPolls[p]

(***************************************************************************)
(* C23: one pollForJobs call makes at most maxConcurrentJobs minus the     *)
(* size of the Map at its start claim calls, and is not entered at all     *)
(* when the Map is full; a claim answered with no job ends the cycle; a    *)
(* claim answered with a job starts the job's execution and, with that     *)
(* execution still running, goes on to the next claim call or ends.        *)
(***************************************************************************)
C23_ClaimsWithinSlots ==
  /\ [](\A p \in PollIds : wmPolls[p].active => wmPolls[p].i + 1 <= wmPolls[p].availableSlots)
  /\ [][\A p \in PollIds : CycleStarts(p) =>
          (Size < maxConcurrentJobs /\ wmPolls'[p].i = 0
             /\ wmPolls'[p].availableSlots = maxConcurrentJobs - Size)]_vars
  /\ [][\A p \in PollIds : ClaimAnswered(p) =>
          IF wmStarted' = wmStarted
          THEN ~wmPolls'[p].active
          ELSE (\E e \in ExecIds : wmExecutions[e].pc = "none" /\ wmExecutions'[e].pc = "running")
                 /\ (wmPolls'[p].active => wmPolls'[p].i = wmPolls[p].i + 1)]_vars

\* a cycle makes its second claim call while the job of its first runs
C23_Witness ==
  \E p \in PollIds :
    /\ wmPolls[p].active
    /\ wmPolls[p].i = 1
    /\ Executing # {}

(***************************************************************************)
(* C24: a claimed job of an unsupported type reaches the default branch of *)
(* executeJob, whose error is caught: the job's row is written failed with *)
(* an error message, no run is created, processJob deletes the Map entry   *)
(* when the execution settles, and the worker keeps running with its       *)
(* polling timer set.                                                      *)
(***************************************************************************)
C24_UnsupportedTypeFails ==
  /\ [][(queueJob.job_type # "tripadvisor_import" /\ phasePc = "executeJob") =>
          phasePc' = "default"]_vars
  /\ [][phasePc = "default" =>
          (phasePc' = "executeJobThrown" /\ queueJob'.status = "failed"
             /\ queueJob'.error_message)]_vars
  /\ []((queueJob.job_type # "tripadvisor_import" /\ phasePc = "executeJobThrown") =>
          /\ queueJob.status = "failed" /\ queueJob.error_message
          /\ runStatus = "none"
          /\ isRunning /\ jobPollingInterval
          /\ wmExecutions[1].pc = "none" => 1 \notin DOMAIN currentJobs)

\* the execution of a job of another type has settled
C24_Witness ==
  /\ queueJob.job_type = "other"
  /\ queueJob.status = "failed"
  /\ phasePc = "executeJobThrown"
  /\ wmExecutions[1].pc = "none"
  /\ currentJobs = [j \in {} |-> 0]

(***************************************************************************)
(* C25: while executeWithRetry waits after failed attempt k, k is at least *)
(* 1 and below maxAttempts, and the delay it waits is delayMs times        *)
(* backoffMultiplier to the power k - 1 when that is at most maxDelayMs,   *)
(* and maxDelayMs otherwise; it is never above maxDelayMs.                 *)
(***************************************************************************)
C25_BackoffDelay ==
  rPc = "delay" =>
    LET k == rAttempt
        P == backoffMultiplier.n ^ (k - 1)
        Q == backoffMultiplier.d ^ (k - 1)
    IN /\ 1 <= k /\ k < rMaxAttempts
       /\ IF delayMs * P <= maxDelayMs * Q
          THEN currentDelay.n * Q = delayMs * P * currentDelay.d
          ELSE currentDelay.n = maxDelayMs * currentDelay.d
       /\ currentDelay.n <= maxDelayMs * currentDelay.d

\* the wait after the second failed attempt, cut to maxDelayMs
C25_Witness ==
  /\ rPc = "delay"
  /\ rAttempt = 2
  /\ delayMs * backoffMultiplier.n > maxDelayMs * backoffMultiplier.d
  /\ currentDelay = Number(maxDelayMs)

(***************************************************************************)
(* C26 as stated, for the task submission of processTripAdvisorImport: a   *)
(* submission the remote API always answers with HTTP 400, 401 or 403 is   *)
(* attempted exactly once, and one it always answers with a 5xx or 429     *)
(* status is attempted again before its error is raised.                   *)
(***************************************************************************)
C26_ExtractionProfile ==
  (rProfile = "createDataForSEOTask" /\ RetryDone /\ rOpAlways \in HttpErrors) =>
     /\ rOpAlways.status \in {400, 401, 403} => rInvocations = 1
     /\ ServerOrRateLimit(rOpAlways) => rInvocations > 1

(***************************************************************************)
(* C27 as stated: after a creation answer that holds no task, or a task    *)
(* whose status code is not 20100, the submission raises and               *)
(* pollForResults is not called for that task.                             *)
(***************************************************************************)
C27_RejectedCreationRaises ==
  [][(created # NoCreation /\ (created.tasks = 0 \/ created.status_code # 20100)) =>
       (phasePc' = "catch" /\ pPc' # "delay")]_vars

\* the place of a status in pending -> running -> {completed | failed};
\* "none" stands for a run that has not been inserted
StatusRank(status) ==
  CASE status = "none" -> 0
    [] status = "pending" -> 1
    [] status = "running" -> 2
    [] OTHER -> 3

(***************************************************************************)
(* C28 as stated: the status of a run is one of pending, running,          *)
(* completed and failed; it only moves forward along pending, running,     *)
(* then completed or failed; once completed or failed it does not change.  *)
(***************************************************************************)
C28_StatusEnum ==
  /\ [](runStatus \in {"none", "pending", "running", "completed", "failed"})
  /\ [][runStatus' # runStatus => StatusRank(runStatus') > StatusRank(runStatus)]_vars
  /\ [][(runStatus = "completed" \/ runStatus = "failed") => runStatus' = runStatus]_vars

\* the job is an import whose payload has one of the defects of the claim
InvalidPayload ==
  /\ queueJob.job_type = "tripadvisor_import"
  /\ \/ queueJob.payload.user_id = ""
     \/ queueJob.payload.url = ""
     \/ ~IncludesTripAdvisor(queueJob.payload.url)
     \/ queueJob.payload.full_history # "boolean"

(***************************************************************************)
(* C29: for a job whose payload lacks user_id or url, has a url that is    *)
(* not a TripAdvisor url or a full_history that is not a boolean, no run   *)
(* is created, no task is created and no poll is made; once the error has  *)
(* been raised the job's row is failed with an error message; and the      *)
(* execution never goes back to run the import again.                      *)
(***************************************************************************)
C29_InvalidPayloadFailsFast ==
  /\ [](InvalidPayload =>
          /\ runStatus = "none"
          /\ created = NoCreation /\ taPoll = "none" /\ pPc = "rest" /\ pFetches = 0
          /\ phasePc \in {"executeJob", "validate", "catch", "thrown", "executeJobThrown"})
  /\ []((InvalidPayload /\ phasePc \in {"thrown", "executeJobThrown"}) =>
          (queueJob.status = "failed" /\ queueJob.error_message))
  /\ [][(InvalidPayload /\ phasePc \notin {"executeJob", "validate"}) =>
          phasePc' \notin {"executeJob", "validate"}]_vars

\* the execution of a job whose url is not a TripAdvisor url has settled
C29_Witness ==
  /\ queueJob.job_type = "tripadvisor_import"
  /\ queueJob.payload.user_id # ""
  /\ queueJob.payload.url # ""
  /\ ~IncludesTripAdvisor(queueJob.payload.url)
  /\ phasePc = "executeJobThrown"
  /\ queueJob.status = "failed"
  /\ wmExecutions[1].pc = "none"

\* execution e of the job takes the step
Acts(e) == imports'[e] # imports[e]

\* execution e is between its dispatch and its return or rethrow
InProgress(e) == imports[e] \notin {"none", "returned", "thrown"}

(***************************************************************************)
(* C30: a step of one execution of processTripAdvisorImport writes no run  *)
(* but the one that execution inserted; in particular the failJob of a     *)
(* failing execution sets failed on its own run only, and no run is        *)
(* written by an execution while the one that inserted it is in progress.  *)
(***************************************************************************)
C30_OwnRunOnly ==
  [][\A e \in ImportIds, r \in ImportIds :
       (Acts(e) /\ review_sync_jobs'[r] # review_sync_jobs[r]) => r = e]_vars

(***************************************************************************)
(* processPhase2 makes its first write to the run only after processPhase1 *)
(* has returned, all its writes made.                                      *)
(***************************************************************************)
Phase2AfterPhase1 ==
  [][phase2Started' > phase2Started =>
       (phasePc = "returned" /\ runProgress = Pct(100))]_vars


(***************************************************************************)
(* C31: a failing updateSyncJob or updateProgress of processPhase1 does    *)
(* not take the phase to its catch block, and a phase that has returned    *)
(* has recorded its outcome: the run is not left in status running.        *)
(***************************************************************************)
C31_WriteFailureNotEscalated ==
  /\ [][(phasePc = "updateSyncJob" \/ phasePc = "updateProgress") => phasePc' # "catch"]_vars
  /\ [](phasePc = "returned" => runStatus # "running")


(***************************************************************************)
(* C32: no job id has two executions in progress at the same time.         *)
(***************************************************************************)
C32_OneExecutionPerJob ==
  \A e \in ExecIds, f \in ExecIds :
    (/\ wmExecutions[e].pc = "running"
     /\ wmExecutions[f].pc = "running"
     /\ wmExecutions[e].job = wmExecutions[f].job) => e = f


\* a call for n ends in this step with the result of its operation
SuccessOf(n) ==
  \E c \in CallIds :
    /\ cbCalls[c].pc = "awaitOperation" /\ cbCalls[c].name = n
    /\ cbCalls'[c] = Finished
    /\ cbConsecutive'[n] = 0

(***************************************************************************)
(* C33: a call that succeeds while its breaker is closed leaves the        *)
(* breaker as it was; the failure counter only grows by one, with a failed *)
(* call, or falls to 0, with a call that succeeds while the breaker is     *)
(* half-open; and a closed breaker holds fewer failures than the           *)
(* threshold, so that it opens with the failure that reaches it.           *)
(***************************************************************************)
C33_CounterKeptOnSuccess ==
  /\ [](\A n \in DOMAIN circuitBreakers :
          circuitBreakers[n].state = "closed" =>
            circuitBreakers[n].failures < cbFailureThreshold)
  /\ [][\A n \in DOMAIN circuitBreakers :
          /\ (SuccessOf(n) /\ circuitBreakers[n].state = "closed") =>
               circuitBreakers'[n] = circuitBreakers[n]
          /\ circuitBreakers'[n].failures # circuitBreakers[n].failures =>
               \/ /\ circuitBreakers'[n].failures = circuitBreakers[n].failures + 1
                  /\ ~SuccessOf(n)
                  /\ (circuitBreakers'[n].state = "open"
                        <=> circuitBreakers'[n].failures >= cbFailureThreshold)
               \/ /\ circuitBreakers'[n].failures = 0
                  /\ SuccessOf(n)
                  /\ circuitBreakers[n].state = "half-open"]_vars

\* the breaker of submit has opened at two failures with a success of a
\* call between them
C33_Witness ==
  /\ "submit" \in DOMAIN circuitBreakers
  /\ cbFailureThreshold = 2
  /\ circuitBreakers["submit"].state = "open"
  /\ circuitBreakers["submit"].failures = 2
  /\ cbConsecutive["submit"] = 1
  /\ \A c \in CallIds : cbCalls[c].pc = "done"


(***************************************************************************)
(* C34: the lastFailure of a breaker never decreases.                      *)
(***************************************************************************)
C34_LastFailureMonotone ==
  [][\A n \in DOMAIN circuitBreakers :
       circuitBreakers'[n].lastFailure >= circuitBreakers[n].lastFailure]_vars


(***************************************************************************)
(* C35: once the workers row holds status offline, no later write sets it  *)
(* to idle or busy.                                                        *)
(***************************************************************************)
C35_OfflineStays == [][workerRow = "offline" => workerRow' = "offline"]_vars


(***************************************************************************)
(* C36: once the job queued by a triggerEnhancedSync request has been      *)
(* completed by the worker, the rows that request and that job gave rise   *)
(* to are not in status pending or running.                                *)
(***************************************************************************)
C36_NoRunningSyncAfterSuccess ==
  \A r \in RequestIds :
    apiJobs[r] = "completed" =>
      (apiSync[r] \notin {"pending", "running"} /\ apiRuns[r] \notin {"pending", "running"})

\* a request inserts its review_sync_jobs row in this step
SyncJobCreated(r) == apiSync[r] = "none" /\ apiSync'[r] # "none"

(***************************************************************************)
(* C37: no request inserts a review_sync_jobs row while a pending or       *)
(* running sync of the user exists, and a request whose getRunningSync is  *)
(* answered while one exists ends with 409.                                *)
(***************************************************************************)
C37_OneSyncAtATime ==
  [][\A r \in RequestIds :
       /\ SyncJobCreated(r) => ~RunningSync
       /\ (apiRequests[r] = "idle" /\ apiRequests'[r] # "idle" /\ RunningSync) =>
            apiRequests'[r] = "409"]_vars


\* how often metric m occurs in the sequence
Occurrences(seq, m) == Cardinality({i \in DOMAIN seq : seq[i] = m})

\* how often metric m occurs in the batches of the flushes in flight
RECURSIVE InFlight(_, _)
InFlight(m, f) ==
  IF f = 0 THEN 0
  ELSE Occurrences(mcFlushes[f].metricsToFlush, m) + InFlight(m, f - 1)

\* flush f ends in this step with no row written
FlushFailed(f) ==
  /\ mcFlushes[f].pc = "awaitInsert" /\ mcFlushes'[f].pc = "idle"
  /\ system_metrics' = system_metrics

(***************************************************************************)
(* C38: every metric recorded is, at any time, in exactly one place: the   *)
(* buffer, the batch of one flush in flight, or one row of system_metrics  *)
(* (so it is inserted at most once and never lost); and a flush that fails *)
(* leaves the buffer holding its whole batch followed by what the buffer   *)
(* held.                                                                   *)
(***************************************************************************)
C38_MetricsKeptOnce ==
  /\ [](\A m \in MetricIds :
          Occurrences(metricsBuffer, m) + InFlight(m, MaxFlushes) + system_metrics[m]
            = (IF m <= mcRecorded THEN 1 ELSE 0))
  /\ [][\A f \in FlushIds :
          FlushFailed(f) =>
            metricsBuffer' = mcFlushes[f].metricsToFlush \o metricsBuffer]_vars

\* two overlapping flushes have failed: the batch of the later one (metric
\* 2) is back ahead of the batch of the first and of metric 3, recorded
\* while it was in flight
C38_Witness ==
  /\ metricsBuffer = <<2, 1, 3>>
  /\ \A f \in FlushIds : mcFlushes[f].pc = "idle"
  /\ \A m \in MetricIds : system_metrics[m] = 0


(***************************************************************************)
(* C39: when executeWithRetry has ended the operation was invoked at least *)
(* once; what it raises is the error the operation raised on its latest    *)
(* invocation; and after it has returned the operation is not invoked.     *)
(***************************************************************************)
C39_InvokedAndOwnError ==
  /\ [](RetryDone => rInvocations >= 1)
  /\ [](rPc = "thrown" => (rRaised # Undefined /\ rRaised = rOpError))
  /\ [][rPc = "returned" => rInvocations' = rInvocations]_vars

====
